---- MODULE Spec2Model ----
(***************************************************************************)
(* Hydrologic condition and reference-statistics pipeline of river-router. *)
(*                                                                         *)
(* Three specifications share the variables of this module:                *)
(*   SpecLive    the live-condition engine (usgs_live_conditions.py):      *)
(*               each behaviour is one call of one of its functions        *)
(*   SpecIngest  one run of a statistics ingest (usgs_statistics_parallel, *)
(*               usgs_statistics_ingest)                                   *)
(*   SpecStore   the statistics and live-condition tables under the       *)
(*               writers' upserts                                          *)
(*                                                                         *)
(* Numbers.  Flows, thresholds and readings are integers.  A percentile is *)
(* an exact rational <<numerator, denominator>> in lowest terms, so the    *)
(* model computes np.interp, np.median and np.polyfit exactly; the         *)
(* floating-point rounding of the real computation is not modelled.        *)
(* Time is counted in ticks of five minutes.  Optional[T] is <<>> for    *)
(* None and <<x>> for a value x.                                           *)
(***************************************************************************)
EXTENDS Integers, Sequences, FiniteSets, TLC

VARIABLES
    \* ---- live-condition engine: one function call
    fn,         \* the function called
    args,       \* its arguments
    ret,        \* its return value (<<>> until it returns)
    returned,   \* whether the call has returned
    \* ---- durable store
    usgs_statistics,  \* the usgs_statistics table: natural key -> row
    usgs_live_conditions, \* the usgs_live_conditions table: site_no -> row
    clock,            \* datetime.now() / NOW(), in ticks
    runs,             \* the writes of the data at hand that have committed
                      \* (SpecStore), the ingest runs completed (SpecReruns)
    first_run,        \* the tables as the first committed write left them
    last_saved,       \* site_no -> [condition, saves]: the condition most recently
                      \* saved for the site and how many were saved for it
    s3,               \* the objects of the bucket: key -> body
    uploads,          \* the upload_live_output calls that returned True, in
                      \* order: [history_key, body]
    \* ---- one run of a statistics ingest
    program,        \* "parallel" (usgs_statistics_parallel) or "sequential" (usgs_statistics_ingest)
    gauges,         \* the site numbers of the usgs_gauges table
    sites,          \* main's list of the sites to process
    pc,             \* where main is
    batches,        \* main's batches
    chunk_start,    \* parallel main's chunk_start
    task,           \* the fetch_batch tasks of the chunk: batch index -> [pc, result,
                    \* requests: the upstream requests issued for the batch]
    semaphore,      \* the value of asyncio.Semaphore(CONCURRENT_REQUESTS)
    batch_idx,      \* sequential main's batch_idx
    total_records,  \* main's total_records
    total_sites,    \* main's total_sites
    failed_batches, \* sequential main's failed_batches
    report          \* the summary main prints: a set of <<label, number>>

LiveVars == <<fn, args, ret, returned>>
S3Vars == <<s3, uploads>>
StoreRest == <<usgs_live_conditions, clock, runs, first_run, last_saved, S3Vars>>
StoreVars == <<usgs_statistics, StoreRest>>
IngestVars == <<program, gauges, sites, pc, batches, chunk_start, task, semaphore,
                batch_idx, total_records, total_sites, failed_batches, report>>

vars == <<LiveVars, StoreVars, IngestVars>>

----------------------------------------------------------------------------
(* Optional values, exact rationals, small helpers *)

None == <<>>
Some(x) == <<x>>
IsSome(o) == o # <<>>
Get(o) == o[1]

Abs(n) == IF n < 0 THEN -n ELSE n

RECURSIVE GCD(_, _)
GCD(a, b) == IF b = 0 THEN a ELSE GCD(b, a % b)

\* n/d in lowest terms with a positive denominator (d # 0)
Rat(n, d) ==
    LET g == GCD(Abs(n), Abs(d))
        s == IF d < 0 THEN -1 ELSE 1
    IN  <<(s * n) \div g, (s * d) \div g>>

IntRat(n) == <<n, 1>>
RatAdd(a, b) == Rat(a[1] * b[2] + b[1] * a[2], a[2] * b[2])
RatSub(a, b) == Rat(a[1] * b[2] - b[1] * a[2], a[2] * b[2])
RatMul(a, b) == Rat(a[1] * b[1], a[2] * b[2])
RatDiv(a, b) == Rat(a[1] * b[2], a[2] * b[1])
RatLe(a, b) == a[1] * b[2] <= b[1] * a[2]
RatLt(a, b) == a[1] * b[2] < b[1] * a[2]

RECURSIVE RatSum(_)
RatSum(s) == IF s = <<>> THEN IntRat(0) ELSE RatAdd(Head(s), RatSum(Tail(s)))

\* Python's round(x, digits) on the exact value: the nearest multiple of
\* 10^-digits, ties to even, returned as the integer count of such units
\* (scale = 10^digits).
round(x, scale) ==
    LET n == x[1] * scale
        d == x[2]
        q == n \div d
        r == n % d
    IN  IF 2 * r < d THEN q
        ELSE IF 2 * r > d THEN q + 1
        ELSE IF q % 2 = 0 THEN q ELSE q + 1

\* sorted(S) of a finite set of integers, ascending
RECURSIVE sorted(_)
sorted(S) ==
    IF S = {} THEN <<>>
    ELSE LET m == CHOOSE x \in S : \A y \in S : x <= y
         IN  <<m>> \o sorted(S \ {m})

----------------------------------------------------------------------------
(* usgs_live_conditions.py: constants *)

\* FLOW_STATUS, in the dict's insertion order: <<low, high, label>>
FLOW_STATUS ==
    << <<0, 5, "Much Below Normal">>,
       <<5, 10, "Below Normal">>,
       <<10, 25, "Below Normal">>,
       <<25, 75, "Normal">>,
       <<75, 90, "Above Normal">>,
       <<90, 95, "Above Normal">>,
       <<95, 100, "Much Above Normal">> >>

\* DROUGHT_THRESHOLDS: threshold -> label
DROUGHT_THRESHOLDS ==
    [t \in {2, 5, 10, 20, 30} |->
        CASE t = 2 -> "D4 - Exceptional Drought"
          [] t = 5 -> "D3 - Extreme Drought"
          [] t = 10 -> "D2 - Severe Drought"
          [] t = 20 -> "D1 - Moderate Drought"
          [] t = 30 -> "D0 - Abnormally Dry"]

TREND_WINDOW_HOURS == 24
TREND_MIN_POINTS == 4
TREND_RISING_THRESHOLD == 10
TREND_FALLING_THRESHOLD == -10

\* ticks of the model's clock in one hour
TicksPerHour == 12

\* the percentile ranks of the reference statistics
PERCENTILES == {5, 10, 25, 50, 75, 90, 95}

----------------------------------------------------------------------------
(* usgs_live_conditions.py: interpolate_percentile and the classifiers *)

\* numpy's linear_search(key, arr, len, i0): indices are 0-based as in C
RECURSIVE linear_search(_, _, _, _)
linear_search(key, arr, len, i0) ==
    IF i0 < len /\ key >= arr[i0 + 1]
    THEN linear_search(key, arr, len, i0 + 1)
    ELSE i0 - 1

\* numpy's binary_search_with_guess for the lengths the model reaches: a key
\* outside the array's ends first, then (len <= 4) the linear search from 1.
\* The result j is 0-based: arr[j] <= key < arr[j+1] in C indexing.
binary_search_with_guess(key, arr, len) ==
    IF key > arr[len] THEN len
    ELSE IF key < arr[1] THEN -1
    ELSE linear_search(key, arr, len, 1)

\* np.interp with the segment's slope applied from the wrong end
np_interp_bad(x, xp, fp) ==
    LET len == Len(xp)
        j == binary_search_with_guess(x, xp, len)
    IN  IF j = -1 THEN IntRat(fp[1])
        ELSE IF j = len THEN IntRat(fp[len])
        ELSE IF j = len - 1 THEN IntRat(fp[j + 1])
        ELSE IF xp[j + 1] = x THEN IntRat(fp[j + 1])
        ELSE RatSub(IntRat(fp[j + 2]),
                    RatMul(Rat(fp[j + 2] - fp[j + 1], xp[j + 2] - xp[j + 1]),
                           IntRat(x - xp[j + 1])))

\* np.interp(x, xp, fp) for a scalar x.  xp is used as given: np.interp does
\* not check that it is increasing.
np_interp(x, xp, fp) ==
    LET len == Len(xp)
        j == binary_search_with_guess(x, xp, len)
    IN  IF j = -1 THEN IntRat(fp[1])
        ELSE IF j = len THEN IntRat(fp[len])
        ELSE IF j = len - 1 THEN IntRat(fp[j + 1])
        ELSE IF xp[j + 1] = x THEN IntRat(fp[j + 1])
        ELSE RatAdd(RatMul(Rat(fp[j + 2] - fp[j + 1], xp[j + 2] - xp[j + 1]),
                           IntRat(x - xp[j + 1])),
                    IntRat(fp[j + 1]))

\* interpolate_percentile with the lower clamp returning the second rank
interpolate_percentile_bad(current_flow, thresholds) ==
    IF Cardinality(DOMAIN thresholds) < 2 THEN None
    ELSE LET sorted_pcts == sorted(DOMAIN thresholds)
             sorted_vals == [i \in 1..Len(sorted_pcts) |-> thresholds[sorted_pcts[i]]]
         IN  IF current_flow <= sorted_vals[1]
             THEN Some(IntRat(sorted_pcts[2]))
             ELSE IF current_flow >= sorted_vals[Len(sorted_vals)]
             THEN Some(IntRat(sorted_pcts[Len(sorted_pcts)]))
             ELSE Some(np_interp(current_flow, sorted_vals, sorted_pcts))

\* interpolate_percentile(current_flow, thresholds): thresholds is a function
\* percentile rank -> threshold value; the result is Optional[rational]
interpolate_percentile(current_flow, thresholds) ==
    IF Cardinality(DOMAIN thresholds) < 2 THEN None
    ELSE LET sorted_pcts == sorted(DOMAIN thresholds)
             sorted_vals == [i \in 1..Len(sorted_pcts) |-> thresholds[sorted_pcts[i]]]
         IN  IF current_flow <= sorted_vals[1]
             THEN Some(IntRat(sorted_pcts[1]))
             ELSE IF current_flow >= sorted_vals[Len(sorted_vals)]
             THEN Some(IntRat(sorted_pcts[Len(sorted_pcts)]))
             ELSE Some(np_interp(current_flow, sorted_vals, sorted_pcts))

\* get_flow_status with bands closed above, low < percentile <= high
get_flow_status_bad(percentile) ==
    LET hit == {i \in 1..Len(FLOW_STATUS) :
                    /\ RatLt(IntRat(FLOW_STATUS[i][1]), percentile)
                    /\ RatLe(percentile, IntRat(FLOW_STATUS[i][2]))}
    IN  IF hit = {} THEN "Normal"
        ELSE FLOW_STATUS[CHOOSE i \in hit : \A k \in hit : i <= k][3]

\* get_flow_status(percentile): the first band of FLOW_STATUS, in dict order,
\* with low <= percentile < high; "Normal" when no band matches
get_flow_status(percentile) ==
    LET hit == {i \in 1..Len(FLOW_STATUS) :
                    /\ RatLe(IntRat(FLOW_STATUS[i][1]), percentile)
                    /\ RatLt(percentile, IntRat(FLOW_STATUS[i][2]))}
    IN  IF hit = {} THEN "Normal"
        ELSE FLOW_STATUS[CHOOSE i \in hit : \A k \in hit : i <= k][3]

\* get_drought_status scanning the thresholds in descending order
get_drought_status_bad(percentile) ==
    LET hit == {t \in DOMAIN DROUGHT_THRESHOLDS : RatLt(percentile, IntRat(t))}
    IN  IF hit = {} THEN None
        ELSE Some(DROUGHT_THRESHOLDS[CHOOSE t \in hit : \A u \in hit : t >= u])

\* get_drought_status with the test percentile <= threshold
get_drought_status_le(percentile) ==
    LET hit == {t \in DOMAIN DROUGHT_THRESHOLDS : RatLe(percentile, IntRat(t))}
    IN  IF hit = {} THEN None
        ELSE Some(DROUGHT_THRESHOLDS[CHOOSE t \in hit : \A u \in hit : t <= u])

\* get_drought_status(percentile): the label of the first threshold, ascending,
\* with percentile < threshold; None when there is none
get_drought_status(percentile) ==
    LET hit == {t \in DOMAIN DROUGHT_THRESHOLDS : RatLt(percentile, IntRat(t))}
    IN  IF hit = {} THEN None
        ELSE Some(DROUGHT_THRESHOLDS[CHOOSE t \in hit : \A u \in hit : t <= u])

----------------------------------------------------------------------------
(* usgs_live_conditions.py: calculate_trend *)

\* TrendResult(trend, trend_rate, hours_since_peak, data_points): trend_rate in
\* hundredths of %/hour (round(.., 2)), hours_since_peak Optional, in tenths
\* of an hour (round(.., 1))
TrendResult(trend, trend_rate, hours_since_peak, data_points) ==
    [trend |-> trend, trend_rate |-> trend_rate,
     hours_since_peak |-> hours_since_peak, data_points |-> data_points]

SeqSum(s) == RatSum([i \in 1..Len(s) |-> IntRat(s[i])])

\* np.std(vals) < 1e-10.  N^2 * variance = N * sum(v^2) - sum(v)^2 is a
\* non-negative integer for integer values, so it is below N^2 * 1e-20 exactly
\* when it is 0.
std_negligible(vals) ==
    LET N == Len(vals)
        s1 == SeqSum(vals)[1]
        s2 == SeqSum([i \in 1..N |-> vals[i] * vals[i]])[1]
    IN  N * s2 - s1 * s1 = 0

\* the sequence s sorted ascending (np.sort)
RECURSIVE sort_seq(_)
sort_seq(s) ==
    IF s = <<>> THEN <<>>
    ELSE LET i == CHOOSE k \in 1..Len(s) : \A m \in 1..Len(s) : s[k] <= s[m]
         IN  <<s[i]>> \o sort_seq([k \in 1..(Len(s) - 1) |-> IF k < i THEN s[k] ELSE s[k + 1]])

\* np.median(vals), a rational
median(vals) ==
    LET srt == sort_seq(vals)
        N == Len(vals)
    IN  IF N % 2 = 1 THEN IntRat(srt[(N + 1) \div 2])
        ELSE Rat(srt[N \div 2] + srt[N \div 2 + 1], 2)

\* np.polyfit(x, y, 1)[0]: the least-squares slope of y against x (rationals)
polyfit_slope(x, y) ==
    LET N == IntRat(Len(x))
        sx == RatSum(x)
        sy == RatSum(y)
        sxy == RatSum([i \in 1..Len(x) |-> RatMul(x[i], y[i])])
        sxx == RatSum([i \in 1..Len(x) |-> RatMul(x[i], x[i])])
    IN  RatDiv(RatSub(RatMul(N, sxy), RatMul(sx, sy)),
               RatSub(RatMul(N, sxx), RatMul(sx, sx)))

\* np.argmax(vals): the first index of the maximum
argmax(vals) ==
    CHOOSE i \in 1..Len(vals) :
        /\ \A k \in 1..Len(vals) : vals[k] <= vals[i]
        /\ \A k \in 1..(i - 1) : vals[k] < vals[i]

\* the window classified with the zero-variance check made after the
\* elapsed-window and median guards
trend_of_window_late_std(values, threshold_rising, threshold_falling) ==
    LET n == Len(values)
        timestamps == [i \in 1..n |-> values[i][1]]
        vals == [i \in 1..n |-> values[i][2]]
        hours == [i \in 1..n |-> Rat(timestamps[i] - timestamps[1], TicksPerHour)]
        total_hours == RatSub(hours[n], hours[1])
        median_val == median(vals)
    IN  IF RatLt(total_hours, Rat(1, 2)) THEN TrendResult("unknown", 0, None, n)
        ELSE IF median_val[1] <= 0 THEN TrendResult("unknown", 0, None, n)
        ELSE TrendResult("stable", 0, None, n)

\* the window classified by the hourly rate in place of the total change
trend_of_window_by_rate(values, threshold_rising, threshold_falling) ==
    LET n == Len(values)
        timestamps == [i \in 1..n |-> values[i][1]]
        vals == [i \in 1..n |-> values[i][2]]
        hours == [i \in 1..n |-> Rat(timestamps[i] - timestamps[1], TicksPerHour)]
        total_hours == RatSub(hours[n], hours[1])
        median_val == median(vals)
        normalized == [i \in 1..n |->
                          RatMul(RatDiv(RatSub(IntRat(vals[i]), median_val), median_val),
                                 IntRat(100))]
        trend_rate == polyfit_slope(hours, normalized)
    IN  IF std_negligible(vals) THEN TrendResult("stable", 0, None, n)
        ELSE IF RatLt(total_hours, Rat(1, 2)) THEN TrendResult("unknown", 0, None, n)
        ELSE IF median_val[1] <= 0 THEN TrendResult("unknown", 0, None, n)
        ELSE IF RatLe(IntRat(threshold_rising), trend_rate)
        THEN TrendResult("rising", round(trend_rate, 100), None, n)
        ELSE IF RatLe(trend_rate, IntRat(threshold_falling))
        THEN TrendResult("falling", round(trend_rate, 100), None, n)
        ELSE TrendResult("stable", round(trend_rate, 100), None, n)

\* the window classified with hours_since_peak reported from half an hour on
trend_of_window_peak_at_half(values, threshold_rising, threshold_falling) ==
    LET n == Len(values)
        timestamps == [i \in 1..n |-> values[i][1]]
        vals == [i \in 1..n |-> values[i][2]]
        hours == [i \in 1..n |-> Rat(timestamps[i] - timestamps[1], TicksPerHour)]
        total_hours == RatSub(hours[n], hours[1])
        median_val == median(vals)
        normalized == [i \in 1..n |->
                          RatMul(RatDiv(RatSub(IntRat(vals[i]), median_val), median_val),
                                 IntRat(100))]
        trend_rate == polyfit_slope(hours, normalized)
        total_change == RatMul(trend_rate, total_hours)
        peak_idx == argmax(vals)
        hours_since_peak == Rat(timestamps[n] - timestamps[peak_idx], TicksPerHour)
    IN  IF std_negligible(vals) THEN TrendResult("stable", 0, None, n)
        ELSE IF RatLt(total_hours, Rat(1, 2)) THEN TrendResult("unknown", 0, None, n)
        ELSE IF median_val[1] <= 0 THEN TrendResult("unknown", 0, None, n)
        ELSE IF RatLe(IntRat(threshold_rising), total_change)
        THEN TrendResult("rising", round(trend_rate, 100), None, n)
        ELSE IF RatLe(total_change, IntRat(threshold_falling))
        THEN TrendResult("falling", round(trend_rate, 100),
                         IF RatLe(Rat(1, 2), hours_since_peak)
                         THEN Some(round(hours_since_peak, 10)) ELSE None, n)
        ELSE TrendResult("stable", round(trend_rate, 100), None, n)

\* the part of calculate_trend after the point-count guard
trend_of_window(values, threshold_rising, threshold_falling) ==
    LET n == Len(values)
        timestamps == [i \in 1..n |-> values[i][1]]
        vals == [i \in 1..n |-> values[i][2]]
        hours == [i \in 1..n |-> Rat(timestamps[i] - timestamps[1], TicksPerHour)]
        total_hours == RatSub(hours[n], hours[1])
        median_val == median(vals)
        normalized == [i \in 1..n |->
                          RatMul(RatDiv(RatSub(IntRat(vals[i]), median_val), median_val),
                                 IntRat(100))]
        trend_rate == polyfit_slope(hours, normalized)
        total_change == RatMul(trend_rate, total_hours)
        peak_idx == argmax(vals)
        hours_since_peak == Rat(timestamps[n] - timestamps[peak_idx], TicksPerHour)
    IN  IF std_negligible(vals) THEN TrendResult("stable", 0, None, n)
        ELSE IF RatLt(total_hours, Rat(1, 2)) THEN TrendResult("unknown", 0, None, n)
        ELSE IF median_val[1] <= 0 THEN TrendResult("unknown", 0, None, n)
        ELSE IF RatLe(IntRat(threshold_rising), total_change)
        THEN TrendResult("rising", round(trend_rate, 100), None, n)
        ELSE IF RatLe(total_change, IntRat(threshold_falling))
        THEN TrendResult("falling", round(trend_rate, 100),
                         IF RatLt(Rat(1, 2), hours_since_peak)
                         THEN Some(round(hours_since_peak, 10)) ELSE None, n)
        ELSE TrendResult("stable", round(trend_rate, 100), None, n)

\* calculate_trend with the point-count guard off by one
calculate_trend_bad(values, threshold_rising, threshold_falling) ==
    IF Len(values) < TREND_MIN_POINTS - 1
    THEN TrendResult("unknown", 0, None, Len(values))
    ELSE trend_of_window(values, threshold_rising, threshold_falling)

\* calculate_trend(values, threshold_rising, threshold_falling): values is a
\* sequence of <<timestamp, value>>
calculate_trend(values, threshold_rising, threshold_falling) ==
    IF Len(values) < TREND_MIN_POINTS
    THEN TrendResult("unknown", 0, None, Len(values))
    ELSE trend_of_window(values, threshold_rising, threshold_falling)

----------------------------------------------------------------------------
(* usgs_live_conditions.py: compute_live_condition *)

\* the percentile and status part of compute_live_condition, with the
\* reading's gauge height interpolated in place of its flow
percentile_and_status_bad(reading, thresholds) ==
    LET percentile ==
            IF IsSome(reading.flow_cfs) /\ DOMAIN thresholds # {}
            THEN interpolate_percentile(Get(reading.gage_height_ft), thresholds)
            ELSE None
    IN  [percentile |-> percentile,
         flow_status |->
            IF IsSome(percentile) THEN Some(get_flow_status(Get(percentile))) ELSE None,
         drought_status |->
            IF IsSome(percentile) THEN get_drought_status(Get(percentile)) ELSE None]

\* the percentile and status part of compute_live_condition
percentile_and_status(reading, thresholds) ==
    LET percentile ==
            IF IsSome(reading.flow_cfs) /\ DOMAIN thresholds # {}
            THEN interpolate_percentile(Get(reading.flow_cfs), thresholds)
            ELSE None
    IN  [percentile |-> percentile,
         flow_status |->
            IF IsSome(percentile) THEN Some(get_flow_status(Get(percentile))) ELSE None,
         drought_status |->
            IF IsSome(percentile) THEN get_drought_status(Get(percentile)) ELSE None]

\* compute_live_condition(site_no, reading) with what it reads made explicit:
\* thresholds is get_percentile_thresholds' answer for today, history is
\* get_historical_readings' answer, now is datetime.now()
compute_live_condition(site_no, reading, thresholds, history, now) ==
    LET status == percentile_and_status(reading, thresholds)
        percentile == status.percentile
        flow_status == status.flow_status
        drought_status == status.drought_status
        flow_hist == SelectSeq(history, LAMBDA h : IsSome(h.streamflow_cfs))
        flow_values ==
            Append([i \in 1..Len(flow_hist) |->
                       <<flow_hist[i].reading_time, Get(flow_hist[i].streamflow_cfs)>>],
                   <<now, Get(reading.flow_cfs)>>)
        flow_trend_result ==
            IF history # <<>> /\ IsSome(reading.flow_cfs)
               /\ Len(flow_values) >= TREND_MIN_POINTS
            THEN calculate_trend(flow_values, TREND_RISING_THRESHOLD,
                                 TREND_FALLING_THRESHOLD)
            ELSE TrendResult("unknown", 0, None, 0)
        temp_hist == SelectSeq(history, LAMBDA h : IsSome(h.water_temp_c))
        temp_values ==
            Append([i \in 1..Len(temp_hist) |->
                       <<temp_hist[i].reading_time, Get(temp_hist[i].water_temp_c)>>],
                   <<now, Get(reading.water_temp_c)>>)
        temp_called ==
            history # <<>> /\ IsSome(reading.water_temp_c)
            /\ Len(temp_values) >= TREND_MIN_POINTS
        temp_result == calculate_trend(temp_values, 5, -5)
    IN  [site_no |-> site_no,
         timestamp |-> reading.timestamp,
         flow_cfs |-> reading.flow_cfs,
         gage_height_ft |-> reading.gage_height_ft,
         water_temp_c |-> reading.water_temp_c,
         percentile |-> IF IsSome(percentile) /\ Get(percentile)[1] # 0
                        THEN Some(round(Get(percentile), 10)) ELSE None,
         flow_status |-> flow_status,
         drought_status |-> drought_status,
         flow_trend |-> Some(flow_trend_result.trend),
         flow_trend_rate |-> Some(flow_trend_result.trend_rate),
         temp_trend |-> IF temp_called THEN Some(temp_result.trend) ELSE None,
         temp_trend_rate |-> IF temp_called THEN Some(temp_result.trend_rate) ELSE None,
         hours_since_peak |-> flow_trend_result.hours_since_peak]

----------------------------------------------------------------------------
(* SpecLive: one call of one function of the live-condition engine, on      *)
(* arguments drawn from bounded sets                                        *)

\* a threshold mapping has at most MaxPoints ranks
MaxPoints == 3
\* percentiles handed to the classifiers: 0.0, 0.1, ... MaxTenths / 10
MaxTenths == 1000
\* rows of a site's history handed to compute_live_condition
MaxHistory == 3

ThresholdValues == {100, 300, 500, 900}
Readings == {50, 100, 200, 300, 400, 500, 700, 900, 1000}
\* timestamps (ticks of 5 minutes) and values of a trend window
TrendTicks == {0, 1, 2, 3, 6, 12}
TrendValues == {-4, 0, 100, 130}
TrendThresholds == {<<TREND_RISING_THRESHOLD, TREND_FALLING_THRESHOLD>>, <<5, -5>>}

ThresholdDomains == {E \in SUBSET PERCENTILES : Cardinality(E) <= MaxPoints}

\* the thresholds of the end-to-end scenarios, none, and a single point
Scenario == (10 :> 100) @@ (50 :> 500) @@ (90 :> 900)
LiveThresholds == {<<>>, (50 :> 500), Scenario}

HistoryRows == {None, Some(400), Some(500)} \X {None, Some(4)}

\* a history: rows two ticks apart, oldest first
History(r) ==
    [i \in 1..Len(r) |-> [reading_time |-> 2 * (i - 1),
                          streamflow_cfs |-> r[i][1],
                          water_temp_c |-> r[i][2]]]

LiveReadings ==
    [flow_cfs : {None, Some(50), Some(500)},
     gage_height_ft : {Some(3)},
     water_temp_c : {None, Some(5)},
     timestamp : {2 * MaxHistory}]

\* no ingest run: the variables of a run at rest
IngestIdle ==
    /\ program = "none"
    /\ gauges = {}
    /\ sites = <<>>
    /\ pc = "idle"
    /\ batches = <<>>
    /\ chunk_start = 0
    /\ task = <<>>
    /\ semaphore = 0
    /\ batch_idx = 0
    /\ total_records = 0
    /\ total_sites = 0
    /\ failed_batches = 0
    /\ report = {}

\* an empty store
StoreEmpty ==
    /\ usgs_statistics = <<>>
    /\ usgs_live_conditions = <<>>
    /\ clock = 0
    /\ runs = 0
    /\ first_run = None
    /\ last_saved = <<>>
    /\ s3 = <<>>
    /\ uploads = <<>>

\* no call of the live-condition engine
LiveIdle ==
    /\ fn = "none"
    /\ args = <<>>
    /\ ret = <<>>
    /\ returned = FALSE

Call(f, a) ==
    /\ fn = f
    /\ args = a
    /\ ret = <<>>
    /\ returned = FALSE
    /\ IngestIdle
    /\ StoreEmpty

InitLive ==
    \/ \E D \in ThresholdDomains : \E t \in [D -> ThresholdValues] :
          \E x \in Readings :
             Call("interpolate_percentile", [current_flow |-> x, thresholds |-> t])
    \/ \E p \in 0..MaxTenths :
          Call("get_flow_status", [percentile |-> Rat(p, 10)])
    \/ \E p \in 0..MaxTenths :
          Call("get_drought_status", [percentile |-> Rat(p, 10)])
       \* every series shorter than TREND_MIN_POINTS, timestamps in any order
    \/ \E n \in 0..(TREND_MIN_POINTS - 1) :
          \E s \in [1..n -> TrendTicks \X TrendValues] :
             Call("calculate_trend",
                  [values |-> s, threshold_rising |-> TREND_RISING_THRESHOLD,
                   threshold_falling |-> TREND_FALLING_THRESHOLD])
       \* series of TREND_MIN_POINTS or one more points, timestamps increasing
    \/ \E T \in SUBSET TrendTicks :
          /\ Cardinality(T) \in {TREND_MIN_POINTS, TREND_MIN_POINTS + 1}
          /\ \E v \in [1..Cardinality(T) -> TrendValues] : \E th \in TrendThresholds :
                Call("calculate_trend",
                     [values |-> [i \in 1..Cardinality(T) |-> <<sorted(T)[i], v[i]>>],
                      threshold_rising |-> th[1], threshold_falling |-> th[2]])
    \/ \E n \in 0..MaxHistory : \E r \in [1..n -> HistoryRows] :
          \E rd \in LiveReadings : \E t \in LiveThresholds :
             Call("compute_live_condition",
                  [site_no |-> 1, reading |-> rd, thresholds |-> t,
                   history |-> History(r), now |-> 2 * MaxHistory])

Return(value) ==
    /\ ~returned
    /\ ret' = value
    /\ returned' = TRUE
    /\ UNCHANGED <<fn, args, StoreVars, IngestVars>>

InterpolatePercentile ==
    /\ fn = "interpolate_percentile"
    /\ Return(interpolate_percentile(args.current_flow, args.thresholds))

GetFlowStatus ==
    /\ fn = "get_flow_status"
    /\ Return(get_flow_status(args.percentile))

GetDroughtStatus ==
    /\ fn = "get_drought_status"
    /\ Return(get_drought_status(args.percentile))

CalculateTrend ==
    /\ fn = "calculate_trend"
    /\ Return(calculate_trend(args.values, args.threshold_rising,
                              args.threshold_falling))

ComputeLiveCondition ==
    /\ fn = "compute_live_condition"
    /\ Return(compute_live_condition(args.site_no, args.reading, args.thresholds,
                                     args.history, args.now))

NextLive ==
    \/ InterpolatePercentile
    \/ GetFlowStatus
    \/ GetDroughtStatus
    \/ CalculateTrend
    \/ ComputeLiveCondition

SpecLive == InitLive /\ [][NextLive]_vars

----------------------------------------------------------------------------
(* Properties of the live-condition engine (SpecLive) *)

Called(f) == returned /\ fn = f

MinOf(S) == CHOOSE x \in S : \A y \in S : x <= y
MaxOf(S) == CHOOSE x \in S : \A y \in S : x >= y
ValuesOf(t) == {t[p] : p \in DOMAIN t}

\* C5: percentile interpolation is monotonic: for a threshold mapping with at
\* least two points, a reading b >= a never gets a smaller interpolated
\* percentile than a.
C5_InterpolationMonotonic ==
    (Called("interpolate_percentile") /\ Cardinality(DOMAIN args.thresholds) >= 2) =>
        \A b \in Readings \cup {args.current_flow + 1, args.current_flow + 50} :
            args.current_flow <= b =>
                RatLe(Get(ret), Get(interpolate_percentile(b, args.thresholds)))

\* a reading strictly inside the thresholds was interpolated between two ranks
C5_Witness ==
    /\ Called("interpolate_percentile")
    /\ args.thresholds = Scenario
    /\ args.current_flow = 300
    /\ ret = Some(<<30, 1>>)

\* C6 as stated: a reading <= the minimum threshold value yields the lowest
\* rank and a reading >= the maximum threshold value yields the highest rank.
C6_ClampsAsStated ==
    (Called("interpolate_percentile") /\ Cardinality(DOMAIN args.thresholds) >= 2) =>
        /\ args.current_flow <= MinOf(ValuesOf(args.thresholds)) =>
               ret = Some(IntRat(MinOf(DOMAIN args.thresholds)))
        /\ args.current_flow >= MaxOf(ValuesOf(args.thresholds)) =>
               ret = Some(IntRat(MaxOf(DOMAIN args.thresholds)))

\* C6 amended: a reading <= the threshold value of the lowest rank (so every
\* reading <= the minimum threshold value) yields the lowest rank; a reading >=
\* the maximum threshold value yields the highest rank unless it is also <= the
\* lowest rank's threshold value, where the lower clamp, tested first, wins.
C6_Clamps ==
    (Called("interpolate_percentile") /\ Cardinality(DOMAIN args.thresholds) >= 2) =>
        LET lowest == MinOf(DOMAIN args.thresholds)
            highest == MaxOf(DOMAIN args.thresholds)
        IN  /\ args.current_flow <= args.thresholds[lowest] =>
                   ret = Some(IntRat(lowest))
            /\ args.current_flow <= MinOf(ValuesOf(args.thresholds)) =>
                   ret = Some(IntRat(lowest))
            /\ (/\ args.current_flow >= MaxOf(ValuesOf(args.thresholds))
                /\ args.current_flow > args.thresholds[lowest]) =>
                   ret = Some(IntRat(highest))

\* a reading above every threshold was clamped to the highest rank
C6_Witness ==
    /\ Called("interpolate_percentile")
    /\ args.thresholds = Scenario
    /\ args.current_flow = 1000
    /\ ret = Some(<<90, 1>>)

\* the five flow-status bands the claim names, as a function of the percentile
BandLabel(p) ==
    IF RatLt(p, IntRat(5)) THEN "Much Below Normal"
    ELSE IF RatLt(p, IntRat(25)) THEN "Below Normal"
    ELSE IF RatLt(p, IntRat(75)) THEN "Normal"
    ELSE IF RatLt(p, IntRat(95)) THEN "Above Normal"
    ELSE "Much Above Normal"

\* C7: get_flow_status gives every percentile in [0,100) the label of the one
\* half-open band [0,5), [5,25), [25,75), [75,95), [95,100) that holds it, and
\* exactly one band of FLOW_STATUS holds it (no gap, no overlap); so 24.9 is
\* Below Normal, 25.0 and 74.9 are Normal and 75.0 is Above Normal.
C7_FlowBands ==
    (/\ Called("get_flow_status")
     /\ RatLe(IntRat(0), args.percentile)
     /\ RatLt(args.percentile, IntRat(100))) =>
        /\ ret = BandLabel(args.percentile)
        /\ Cardinality({i \in 1..Len(FLOW_STATUS) :
                           /\ RatLe(IntRat(FLOW_STATUS[i][1]), args.percentile)
                           /\ RatLt(args.percentile, IntRat(FLOW_STATUS[i][2]))}) = 1
        /\ args.percentile = Rat(249, 10) => ret = "Below Normal"
        /\ args.percentile = Rat(250, 10) => ret = "Normal"
        /\ args.percentile = Rat(749, 10) => ret = "Normal"
        /\ args.percentile = Rat(750, 10) => ret = "Above Normal"

\* the boundary percentile 25.0 was classified
C7_Witness ==
    /\ Called("get_flow_status")
    /\ args.percentile = Rat(250, 10)
    /\ ret = "Normal"

\* C8 as stated: get_drought_status gives D4 for percentile 1, None for
\* percentile 25 and D0 for percentile 29.9.
C8_DroughtAsStated ==
    Called("get_drought_status") =>
        /\ args.percentile = IntRat(1) => ret = Some("D4 - Exceptional Drought")
        /\ args.percentile = IntRat(25) => ret = None
        /\ args.percentile = Rat(299, 10) => ret = Some("D0 - Abnormally Dry")

\* C8 amended: get_drought_status gives D4 for percentile 1, D0 for percentile
\* 25 (25 < 30; None is returned only from percentile 30 up) and D0 for
\* percentile 29.9.
C8_Drought ==
    Called("get_drought_status") =>
        /\ args.percentile = IntRat(1) => ret = Some("D4 - Exceptional Drought")
        /\ args.percentile = IntRat(25) => ret = Some("D0 - Abnormally Dry")
        /\ args.percentile = Rat(299, 10) => ret = Some("D0 - Abnormally Dry")
        /\ RatLe(IntRat(30), args.percentile) <=> ret = None

\* percentile 25 was classified
C8_Witness ==
    /\ Called("get_drought_status")
    /\ args.percentile = IntRat(25)
    /\ ret # None

\* C9: with thresholds {10:100, 50:500, 90:900}, compute_live_condition gives
\* percentile 50.0, status Normal and no drought status for a flow of 500, and
\* percentile 10.0, status Below Normal and D1 - Moderate Drought for a flow of
\* 50.
C9_EndToEnd ==
    (Called("compute_live_condition") /\ args.thresholds = Scenario) =>
        /\ args.reading.flow_cfs = Some(500) =>
               /\ ret.percentile = Some(500)
               /\ ret.flow_status = Some("Normal")
               /\ ret.drought_status = None
        /\ args.reading.flow_cfs = Some(50) =>
               /\ ret.percentile = Some(100)
               /\ ret.flow_status = Some("Below Normal")
               /\ ret.drought_status = Some("D1 - Moderate Drought")

\* the low-flow scenario was computed
C9_Witness ==
    /\ Called("compute_live_condition")
    /\ args.thresholds = Scenario
    /\ args.reading.flow_cfs = Some(50)
    /\ ret.drought_status = Some("D1 - Moderate Drought")

\* C10: calculate_trend returns trend "unknown", rate 0.0 and no
\* hours-since-peak for every input of fewer than TREND_MIN_POINTS points,
\* whatever their values and timestamps.
C10_TooFewPoints ==
    (Called("calculate_trend") /\ Len(args.values) < TREND_MIN_POINTS) =>
        /\ ret.trend = "unknown"
        /\ ret.trend_rate = 0
        /\ ret.hours_since_peak = None

\* three points rising by 30% over an hour were given and not classified
C10_Witness ==
    /\ Called("calculate_trend")
    /\ args.values = << <<0, 100>>, <<6, 100>>, <<12, 130>> >>
    /\ ret.trend = "unknown"

\* the values of a series
ValuesIn(values) == {values[i][2] : i \in 1..Len(values)}

\* the elapsed hours of a series, first point to last
ElapsedHours(values) == Rat(values[Len(values)][1] - values[1][1], TicksPerHour)

\* C11: for every series of at least TREND_MIN_POINTS points whose values are
\* all equal, calculate_trend returns "stable" with rate 0.0 and no
\* hours-since-peak, also when the window spans less than 30 minutes or the
\* constant value is zero (or below): the zero-variance check comes first.
C11_ConstantIsStable ==
    (/\ Called("calculate_trend")
     /\ Len(args.values) >= TREND_MIN_POINTS
     /\ Cardinality(ValuesIn(args.values)) = 1)
    => ret = TrendResult("stable", 0, None, Len(args.values))

\* four readings of zero within 15 minutes were classified stable
C11_Witness ==
    /\ Called("calculate_trend")
    /\ args.values = << <<0, 0>>, <<1, 0>>, <<2, 0>>, <<3, 0>> >>
    /\ ret.trend = "stable"

\* the least-squares slope of y against x by centred sums:
\* sum((x - mean x) * (y - mean y)) / sum((x - mean x)^2)
CentredSlope(x, y) ==
    LET N == IntRat(Len(x))
        mx == RatDiv(RatSum(x), N)
        my == RatDiv(RatSum(y), N)
    IN  RatDiv(RatSum([i \in 1..Len(x) |->
                          RatMul(RatSub(x[i], mx), RatSub(y[i], my))]),
               RatSum([i \in 1..Len(x) |->
                          RatMul(RatSub(x[i], mx), RatSub(x[i], mx))]))

\* total_change of a series: the slope of the percent deviation from the
\* median against the elapsed hours, times the elapsed hours
TotalChange(values) ==
    LET n == Len(values)
        med == median([i \in 1..n |-> values[i][2]])
        x == [i \in 1..n |-> Rat(values[i][1] - values[1][1], TicksPerHour)]
        y == [i \in 1..n |->
                 RatDiv(RatMul(IntRat(100), RatSub(IntRat(values[i][2]), med)), med)]
    IN  RatMul(CentredSlope(x, y), ElapsedHours(values))

\* a series that passes the point-count, variance, elapsed-window and median
\* guards
PassesGuards(values) ==
    /\ Len(values) >= TREND_MIN_POINTS
    /\ Cardinality(ValuesIn(values)) > 1
    /\ RatLe(Rat(1, 2), ElapsedHours(values))
    /\ median([i \in 1..Len(values) |-> values[i][2]])[1] > 0

\* C12: a window that passes the guards is "rising" iff total_change >=
\* threshold_rising, "falling" iff total_change <= threshold_falling, and
\* "stable" otherwise; compute_live_condition classifies the flow series with
\* thresholds +10/-10 and the temperature series with +5/-5.
C12_ClassifiedByTotalChange ==
    /\ (Called("calculate_trend") /\ PassesGuards(args.values)) =>
          LET tc == TotalChange(args.values)
              up == RatLe(IntRat(args.threshold_rising), tc)
              down == RatLe(tc, IntRat(args.threshold_falling))
          IN  /\ ret.trend = "rising" <=> up
              /\ ret.trend = "falling" <=> down
              /\ ret.trend = "stable" <=> (~up /\ ~down)
    /\ (Called("compute_live_condition") /\ args.history # <<>>) =>
          LET flow == SelectSeq(args.history, LAMBDA h : IsSome(h.streamflow_cfs))
              temp == SelectSeq(args.history, LAMBDA h : IsSome(h.water_temp_c))
              flow_values ==
                  Append([i \in 1..Len(flow) |->
                             <<flow[i].reading_time, Get(flow[i].streamflow_cfs)>>],
                         <<args.now, Get(args.reading.flow_cfs)>>)
              temp_values ==
                  Append([i \in 1..Len(temp) |->
                             <<temp[i].reading_time, Get(temp[i].water_temp_c)>>],
                         <<args.now, Get(args.reading.water_temp_c)>>)
          IN  /\ (IsSome(args.reading.flow_cfs) /\ PassesGuards(flow_values)) =>
                    ret.flow_trend =
                       Some(IF RatLe(IntRat(10), TotalChange(flow_values)) THEN "rising"
                            ELSE IF RatLe(TotalChange(flow_values), IntRat(-10))
                            THEN "falling" ELSE "stable")
              /\ (IsSome(args.reading.water_temp_c) /\ PassesGuards(temp_values)) =>
                    ret.temp_trend =
                       Some(IF RatLe(IntRat(5), TotalChange(temp_values)) THEN "rising"
                            ELSE IF RatLe(TotalChange(temp_values), IntRat(-5))
                            THEN "falling" ELSE "stable")

\* a window whose total change lies between 5 and 10 percent was classified
\* rising under the temperature thresholds
C12_Witness ==
    /\ Called("calculate_trend")
    /\ PassesGuards(args.values)
    /\ args.threshold_rising = 5
    /\ RatLt(TotalChange(args.values), IntRat(10))
    /\ ret.trend = "rising"

----------------------------------------------------------------------------
(* The usgs_statistics table and its writers *)

PARAM_CODE == "00060"

StatColumns == {"value", "years_of_record", "begin_year", "end_year", "updated_at"}

\* the natural key of a statistics record
KeyOf(r) == <<r.site_no, PARAM_CODE, r.stat_type, r.month, r.day>>

\* the row a writer's VALUES tuple holds for record r at time now
RowOf(r, now) ==
    [value |-> r.value, years_of_record |-> r.years_of_record,
     begin_year |-> r.begin_year, end_year |-> r.end_year, updated_at |-> now]

\* an upsert that on conflict clears the columns it does not refresh
insert_on_conflict_bad(table, records, refreshed, now) ==
    LET keys == {KeyOf(records[i]) : i \in 1..Len(records)}
        excluded(k) ==
            RowOf(records[CHOOSE i \in 1..Len(records) : KeyOf(records[i]) = k], now)
    IN  [k \in (DOMAIN table) \cup keys |->
            IF k \notin keys THEN table[k]
            ELSE IF k \notin DOMAIN table THEN excluded(k)
            ELSE [c \in StatColumns |->
                     IF c \in refreshed THEN excluded(k)[c] ELSE None]]

\* INSERT .. ON CONFLICT (key) DO UPDATE SET <refreshed columns> = EXCLUDED..
\* of a list of records with distinct keys
insert_on_conflict(table, records, refreshed, now) ==
    LET keys == {KeyOf(records[i]) : i \in 1..Len(records)}
        excluded(k) ==
            RowOf(records[CHOOSE i \in 1..Len(records) : KeyOf(records[i]) = k], now)
    IN  [k \in (DOMAIN table) \cup keys |->
            IF k \notin keys THEN table[k]
            ELSE IF k \notin DOMAIN table THEN excluded(k)
            ELSE [c \in StatColumns |->
                     IF c \in refreshed THEN excluded(k)[c] ELSE table[k][c]]]

\* PostgreSQL rejects a statement whose rows hit the same key twice
affects_row_twice(records) ==
    \E i, j \in 1..Len(records) : i < j /\ KeyOf(records[i]) = KeyOf(records[j])

\* usgs_statistics_parallel.save_records(records): the table afterwards and
\* the count returned; db_ok is whether execute_values and commit succeed
save_records(table, records, db_ok, now) ==
    IF records = <<>> THEN [table |-> table, count |-> 0]
    ELSE IF db_ok /\ ~affects_row_twice(records)
    THEN [table |-> insert_on_conflict(table, records,
                                       {"value", "years_of_record", "updated_at"}, now),
          count |-> Len(records)]
    ELSE [table |-> table, count |-> 0]

\* usgs_statistics_ingest.save_statistics(records)
save_statistics(table, records, db_ok, now) ==
    IF records = <<>> THEN [table |-> table, count |-> 0]
    ELSE IF db_ok /\ ~affects_row_twice(records)
    THEN [table |-> insert_on_conflict(table, records, StatColumns, now),
          count |-> Len(records)]
    ELSE [table |-> table, count |-> 0]

\* usgs_statistics_bulk.save_stats(df), of the records it builds from df:
\* the statement of save_records
save_stats(table, records, db_ok, now) ==
    IF records = <<>> THEN [table |-> table, count |-> 0]
    ELSE IF db_ok /\ ~affects_row_twice(records)
    THEN [table |-> insert_on_conflict(table, records,
                                       {"value", "years_of_record", "updated_at"}, now),
          count |-> Len(records)]
    ELSE [table |-> table, count |-> 0]

\* INSERT .. ON CONFLICT (key) DO NOTHING: a record whose key is stored, or
\* came earlier in the list, is dropped
insert_do_nothing(table, records, now) ==
    LET keys == {KeyOf(records[i]) : i \in 1..Len(records)}
        first(k) == CHOOSE i \in 1..Len(records) :
                       /\ KeyOf(records[i]) = k
                       /\ \A j \in 1..(i - 1) : KeyOf(records[j]) # k
    IN  [k \in (DOMAIN table) \cup keys |->
            IF k \in DOMAIN table THEN table[k] ELSE RowOf(records[first(k)], now)]

\* usgs_statistics_robust.fetch_and_save_site(site_no), of the records it
\* builds: the count is len(records) whatever was inserted, -1 on an exception
fetch_and_save_site(table, records, db_ok, now) ==
    IF records = <<>> THEN [table |-> table, count |-> 0]
    ELSE IF db_ok
    THEN [table |-> insert_do_nothing(table, records, now), count |-> Len(records)]
    ELSE [table |-> table, count |-> -1]

\* the sites with at least one row in the table
SitesWithStats(table) == {k[1] : k \in DOMAIN table}

\* a sites query that selects every gauge
get_gauges_needing_stats_bad(g, table) == sorted(g)

\* get_gauges_needing_stats / get_gauges_to_process: the gauges with no
\* statistics row, ordered by site number
get_gauges_needing_stats(g, table) == sorted(g \ SitesWithStats(table))

\* usgs_statistics_ingest.get_gauges_to_process(None): the same query, ordered
\* by state and site number; the gauges here are of one state
get_gauges_to_process(g, table) == sorted(g \ SitesWithStats(table))

----------------------------------------------------------------------------
(* usgs_statistics_parallel.py and usgs_statistics_ingest.py: one run *)

SITES_PER_BATCH == 10
SITES_PER_REQUEST == 10
CONCURRENT_REQUESTS == 5
chunk_size == 50

Min(a, b) == IF a < b THEN a ELSE b

\* Python's range(start, stop, step), step > 0
RECURSIVE range(_, _, _)
range(start, stop, step) ==
    IF start >= stop THEN <<>> ELSE <<start>> \o range(start + step, stop, step)

\* Python's s[i:i+n], i counted from 0
slice(s, i, n) == SubSeq(s, i + 1, Min(i + n, Len(s)))

\* batching that stops the range one site early
make_batches_bad(site_nos, B) ==
    LET starts == range(0, Len(site_nos) - 1, B)
    IN  [k \in 1..Len(starts) |-> slice(site_nos, starts[k], B)]

\* [sites[i:i+B] for i in range(0, len(sites), B)]
make_batches(site_nos, B) ==
    LET starts == range(0, Len(site_nos), B)
    IN  [k \in 1..Len(starts) |-> slice(site_nos, starts[k], B)]

RECURSIVE Concat(_)
Concat(ss) == IF ss = <<>> THEN <<>> ELSE Head(ss) \o Concat(Tail(ss))

SitesOf(batch) == {batch[i] : i \in 1..Len(batch)}

\* What the statistics service holds for a batch: the set of its sites that
\* have daily statistics.  Every site has them, or none has, and gauge 1 may
\* be a site without statistics in an otherwise served batch.
Payloads(batch) ==
    {{}, SitesOf(batch)}
        \cup (IF 1 \in SitesOf(batch) THEN {SitesOf(batch) \ {1}} ELSE {})

\* the record parse_rdb_response builds for a site's row
rdb_record(s) ==
    [site_no |-> s, stat_type |-> "p50", month |-> 1, day |-> 1, value |-> 100,
     years_of_record |-> Some(30), begin_year |-> Some(1990), end_year |-> Some(2020)]

\* the record fetch_statistics_batch builds from the JSON answer
json_record(s) ==
    [site_no |-> s, stat_type |-> "mean", month |-> 1, day |-> 1, value |-> 100,
     years_of_record |-> None, begin_year |-> None, end_year |-> None]

\* parse_rdb_response(text): one record per data row, in the answer's order
parse_rdb_response(payload) ==
    LET order == sorted(payload) IN [i \in 1..Len(order) |-> rdb_record(order[i])]

parse_json_response(payload) ==
    LET order == sorted(payload) IN [i \in 1..Len(order) |-> json_record(order[i])]

\* the tasks main creates for the chunk that starts at batch index start
chunk_tasks(bs, start) ==
    [b \in (start + 1)..Min(start + chunk_size, Len(bs)) |->
        [pc |-> "acquire", result |-> <<>>, requests |-> 0]]

\* the usgs_gauges table holds 1..n for a gauge count n up to MaxGauges: none,
\* one, a full batch, two batches and a site, five batches, and MaxGauges
MaxGauges == 51
GaugeCounts ==
    {0, 1, SITES_PER_BATCH, 2 * SITES_PER_BATCH + 1, 5 * SITES_PER_BATCH, MaxGauges}

InitRun(counts) ==
    /\ program \in {"parallel", "sequential"}
    /\ \E n \in counts : gauges = 1..n
    /\ sites = <<>>
    /\ pc = "start"
    /\ batches = <<>>
    /\ chunk_start = 0
    /\ task = <<>>
    /\ semaphore = 0
    /\ batch_idx = 0
    /\ total_records = 0
    /\ total_sites = 0
    /\ failed_batches = 0
    /\ report = {}
    /\ StoreEmpty
    /\ LiveIdle

InitIngest == InitRun(GaugeCounts)

\* parallel main up to its first await: the sites query, the batches, the
\* semaphore and the first chunk's tasks
ParStart ==
    /\ program = "parallel"
    /\ pc = "start"
    /\ LET todo == get_gauges_needing_stats(gauges, usgs_statistics)
       IN  /\ sites' = todo
           /\ IF todo = <<>>
              THEN /\ pc' = "done"
                   /\ UNCHANGED <<batches, task, semaphore>>
              ELSE /\ batches' = make_batches(todo, SITES_PER_BATCH)
                   /\ semaphore' = CONCURRENT_REQUESTS
                   /\ task' = chunk_tasks(batches', 0)
                   /\ pc' = "gather"
    /\ UNCHANGED <<program, gauges, chunk_start, batch_idx, total_records,
                   total_sites, failed_batches, report, StoreVars, LiveVars>>

TaskStep(b, to, result) ==
    /\ task' = [task EXCEPT ![b] =
                    [pc |-> to, result |-> result,
                     requests |-> task[b].requests + (IF to = "get" THEN 1 ELSE 0)]]
    /\ UNCHANGED <<program, gauges, sites, pc, batches, chunk_start, batch_idx,
                   total_records, total_sites, failed_batches, report,
                   StoreVars, LiveVars>>

\* the semaphore acquired without waiting for a free permit
Acquire_bad(b) ==
    /\ pc = "gather"
    /\ task[b].pc = "acquire"
    /\ semaphore' = semaphore - 1
    /\ TaskStep(b, "get", <<>>)

\* fetch_batch: async with semaphore
Acquire(b) ==
    /\ pc = "gather"
    /\ task[b].pc = "acquire"
    /\ semaphore > 0
    /\ semaphore' = semaphore - 1
    /\ TaskStep(b, "get", <<>>)

\* fetch_batch: session.get answers with status 200
Response200(b) ==
    /\ pc = "gather"
    /\ task[b].pc = "get"
    /\ UNCHANGED semaphore
    /\ TaskStep(b, "text", <<>>)

\* fetch_batch that asks again after a status other than 200
ResponseNot200_again(b) ==
    /\ pc = "gather"
    /\ task[b].pc = "get"
    /\ semaphore' = semaphore + 1
    /\ TaskStep(b, "acquire", <<>>)

\* fetch_batch: session.get answers with another status: return []
ResponseNot200(b) ==
    /\ pc = "gather"
    /\ task[b].pc = "get"
    /\ semaphore' = semaphore + 1
    /\ TaskStep(b, "done", <<>>)

\* fetch_batch: the request or the read raises (timeout, connection): return []
RequestError(b) ==
    /\ pc = "gather"
    /\ task[b].pc \in {"get", "text"}
    /\ semaphore' = semaphore + 1
    /\ TaskStep(b, "done", <<>>)

\* fetch_batch: resp.text() arrives: return parse_rdb_response(text)
TextRead(b) ==
    /\ pc = "gather"
    /\ task[b].pc = "text"
    /\ semaphore' = semaphore + 1
    /\ \E payload \in Payloads(batches[b]) :
          TaskStep(b, "done", parse_rdb_response(payload))

\* parallel main after gather: combine the chunk's results, save them with one
\* save_records call, count; db_ok is the database's answer to the statement
SaveChunk(db_ok) ==
    /\ program = "parallel"
    /\ pc = "gather"
    /\ \A b \in DOMAIN task : task[b].pc = "done"
    /\ LET results == [i \in 1..Cardinality(DOMAIN task) |->
                          task[chunk_start + i].result]
           all_records == Concat(results)
           sites_in_chunk == {all_records[i].site_no : i \in 1..Len(all_records)}
       IN  IF all_records # <<>>
           THEN LET saved == save_records(usgs_statistics, all_records, db_ok, clock)
                IN  /\ usgs_statistics' = saved.table
                    /\ total_records' = total_records + saved.count
                    /\ total_sites' = total_sites + Cardinality(sites_in_chunk)
           ELSE UNCHANGED <<usgs_statistics, total_records, total_sites>>
    /\ pc' = "sleep"
    /\ UNCHANGED <<program, gauges, sites, batches, chunk_start, task, semaphore,
                   batch_idx, failed_batches, report, StoreRest, LiveVars>>

ParSaveChunk ==
    /\ program = "parallel"
    /\ \E db_ok \in BOOLEAN : SaveChunk(db_ok)

\* parallel main after the sleep: the next chunk's tasks, or the summary
ParAfterSleep ==
    /\ program = "parallel"
    /\ pc = "sleep"
    /\ IF chunk_start + chunk_size < Len(batches)
       THEN /\ chunk_start' = chunk_start + chunk_size
            /\ task' = chunk_tasks(batches, chunk_start')
            /\ pc' = "gather"
            /\ UNCHANGED report
       ELSE /\ report' = {<<"Sites", total_sites>>, <<"Records", total_records>>}
            /\ pc' = "done"
            /\ UNCHANGED <<chunk_start, task>>
    /\ UNCHANGED <<program, gauges, sites, batches, semaphore, batch_idx,
                   total_records, total_sites, failed_batches, StoreVars, LiveVars>>

\* sequential main up to its loop: the gauges to process and the batches
SeqStart ==
    /\ program = "sequential"
    /\ pc = "start"
    /\ LET todo == get_gauges_to_process(gauges, usgs_statistics)
       IN  /\ sites' = todo
           /\ IF todo = <<>>
              THEN pc' = "done" /\ UNCHANGED batches
              ELSE batches' = make_batches(todo, SITES_PER_REQUEST) /\ pc' = "loop"
    /\ UNCHANGED <<program, gauges, chunk_start, task, semaphore, batch_idx,
                   total_records, total_sites, failed_batches, report,
                   StoreVars, LiveVars>>

\* one iteration of sequential main's loop whose fetch returned records
SeqSave(records, requests) ==
    /\ \E db_ok \in BOOLEAN :
          LET saved == save_statistics(usgs_statistics, records, db_ok, clock)
          IN  /\ usgs_statistics' = saved.table
              /\ total_records' = total_records + saved.count
    /\ total_sites' =
          total_sites + Cardinality({records[i].site_no : i \in 1..Len(records)})
    /\ batch_idx' = batch_idx + 1
    /\ task' = task \o <<[pc |-> "done", result |-> records, requests |-> requests]>>
    /\ UNCHANGED <<program, gauges, sites, pc, batches, chunk_start,
                   semaphore, failed_batches, report, StoreRest, LiveVars>>

\* the RDB fetch returned records
SeqBatchRdb ==
    /\ program = "sequential"
    /\ pc = "loop"
    /\ batch_idx < Len(batches)
    /\ \E payload \in Payloads(batches[batch_idx + 1]) \ {{}} :
          SeqSave(parse_rdb_response(payload), 1)

\* the RDB fetch returned nothing and the JSON fallback returned records
SeqBatchJson ==
    /\ program = "sequential"
    /\ pc = "loop"
    /\ batch_idx < Len(batches)
    /\ \E payload \in Payloads(batches[batch_idx + 1]) \ {{}} :
          SeqSave(parse_json_response(payload), 2)

\* both fetches returned nothing: the batch is counted as failed
SeqBatchFailed ==
    /\ program = "sequential"
    /\ pc = "loop"
    /\ batch_idx < Len(batches)
    /\ failed_batches' = failed_batches + 1
    /\ batch_idx' = batch_idx + 1
    /\ task' = task \o <<[pc |-> "done", result |-> <<>>, requests |-> 2]>>
    /\ UNCHANGED <<program, gauges, sites, pc, batches, chunk_start,
                   semaphore, total_records, total_sites, report,
                   StoreVars, LiveVars>>

\* sequential main after its loop: the summary
SeqFinish ==
    /\ program = "sequential"
    /\ pc = "loop"
    /\ batch_idx = Len(batches)
    /\ report' = {<<"Sites processed", total_sites>>,
                  <<"Records saved", total_records>>,
                  <<"Failed batches", failed_batches>>}
    /\ pc' = "done"
    /\ UNCHANGED <<program, gauges, sites, batches, chunk_start, task, semaphore,
                   batch_idx, total_records, total_sites, failed_batches,
                   StoreVars, LiveVars>>

NextIngest ==
    \/ ParStart
    \/ \E b \in DOMAIN task : Acquire(b)
    \/ \E b \in DOMAIN task : Response200(b)
    \/ \E b \in DOMAIN task : ResponseNot200(b)
    \/ \E b \in DOMAIN task : RequestError(b)
    \/ \E b \in DOMAIN task : TextRead(b)
    \/ ParSaveChunk
    \/ ParAfterSleep
    \/ SeqStart
    \/ SeqBatchRdb
    \/ SeqBatchJson
    \/ SeqBatchFailed
    \/ SeqFinish

SpecIngest == InitIngest /\ [][NextIngest]_vars

----------------------------------------------------------------------------
(* Claims about the ingest runs, checked under SpecIngest *)

\* the batches whose task is inside "async with semaphore"
InFlight == {b \in DOMAIN task : task[b].pc \in {"get", "text"}}

\* C1: in the parallel ingest, under every interleaving of the batch-fetch
\* tasks, the number of batches holding the semaphore (a request in flight)
\* never exceeds CONCURRENT_REQUESTS, however many batches the chunk has.
C1_BoundedInFlight ==
    program = "parallel" =>
        /\ Cardinality(InFlight) <= CONCURRENT_REQUESTS
        /\ semaphore >= 0
        /\ pc = "gather" => semaphore + Cardinality(InFlight) = CONCURRENT_REQUESTS

\* C1 witness: a chunk of more batches than permits, all permits taken and a
\* batch still waiting for one
C1_Witness ==
    /\ program = "parallel"
    /\ Cardinality(DOMAIN task) > CONCURRENT_REQUESTS
    /\ Cardinality(InFlight) = CONCURRENT_REQUESTS
    /\ \E b \in DOMAIN task : task[b].pc = "acquire"

CeilDiv(n, b) == (n + b - 1) \div b

\* bs is the batching of the list site_nos with batch size B as C2 states it
IsBatching(bs, site_nos, B) ==
    /\ Len(bs) = CeilDiv(Len(site_nos), B)
    /\ \A k \in 1..Len(bs) : Len(bs[k]) >= 1 /\ Len(bs[k]) <= B
    /\ \A k \in 1..(Len(bs) - 1) : Len(bs[k]) = B
    /\ Concat(bs) = site_nos
    /\ \A j, k \in 1..Len(bs) : j # k => SitesOf(bs[j]) \cap SitesOf(bs[k]) = {}
    /\ \A i \in 1..Len(site_nos) :
          Cardinality({k \in 1..Len(bs) : site_nos[i] \in SitesOf(bs[k])}) = 1

\* main has built its batches and nothing has run since
JustBatched ==
    \/ pc = "loop" /\ batch_idx = 0
    \/ pc = "gather" /\ chunk_start = 0 /\ \A b \in DOMAIN task : task[b].pc = "acquire"

\* batch sizes other than the programs' own at which the batching is examined
MaxBatchSize == 4

\* C2: batching an ordered list of N distinct sites with batch size B >= 1
\* yields exactly ceil(N/B) consecutive batches, each non-empty and of at most
\* B sites, only the last possibly shorter, whose concatenation is the input,
\* so that every site is in exactly one batch.  Stated of the batches both
\* programs build, and of make_batches at every B up to MaxBatchSize.
C2_Batching ==
    JustBatched =>
        /\ IsBatching(batches, sites,
                      IF program = "parallel" THEN SITES_PER_BATCH ELSE SITES_PER_REQUEST)
        /\ \A B \in 1..MaxBatchSize : IsBatching(make_batches(sites, B), sites, B)

\* C2 witness: a list one longer than a multiple of the batch size has been
\* batched, and its last batch is the short one
C2_Witness ==
    /\ JustBatched
    /\ Len(sites) = 2 * SITES_PER_BATCH + 1
    /\ Len(batches) = 3
    /\ Len(batches[3]) = 1
    /\ Len(batches[2]) = SITES_PER_BATCH

\* the batches of the run that produced no records
FailedBatches == {b \in DOMAIN task : task[b].result = <<>>}

\* the records the run's batches produced
FetchedRecords ==
    UNION {{task[b].result[i] : i \in 1..Len(task[b].result)} : b \in DOMAIN task}

\* every save of the run committed
AllSavesCommitted == total_records = Cardinality(FetchedRecords)

\* the labels under which a summary reports failures
ErrorLabels == {"Failed batches", "Errors", "Failed", "Sites errored"}

\* C3: in a run of five batches in which exactly one batch fails, the records
\* of the other four are persisted and the run reports exactly one error count.
C3_OneFailureReported ==
    (/\ pc = "done"
     /\ Len(batches) = 5
     /\ Cardinality(FailedBatches) = 1
     /\ AllSavesCommitted)
    => /\ \A r \in FetchedRecords : KeyOf(r) \in DOMAIN usgs_statistics
       /\ \E e \in report : e[1] \in ErrorLabels /\ e[2] = 1

\* C3, sequential ingest only: the summary carries "Failed batches: 1"
C3_SequentialReportsFailure ==
    program = "sequential" => C3_OneFailureReported

\* C3, the part the parallel ingest keeps: the other four batches' records
\* are persisted
C3_OthersPersisted ==
    (/\ pc = "done"
     /\ Len(batches) = 5
     /\ Cardinality(FailedBatches) = 1
     /\ AllSavesCommitted)
    => /\ \A r \in FetchedRecords : KeyOf(r) \in DOMAIN usgs_statistics
       /\ Cardinality(DOMAIN usgs_statistics) = total_records
       /\ Cardinality({b \in DOMAIN task : task[b].result # <<>>}) = 4

----------------------------------------------------------------------------
(* The writers, each called again and again with the same data: SpecStore *)

\* stat_type f'p{p:02d}' of a percentile level
PctName(p) ==
    CASE p = 5 -> "p05" [] p = 10 -> "p10" [] p = 25 -> "p25" [] p = 50 -> "p50"
      [] p = 75 -> "p75" [] p = 90 -> "p90" [] p = 95 -> "p95"

\* the records save_percentiles_to_db builds from one DataFrame row: none if
\* month_day does not parse, else one per percentile column holding a value
row_records(row, site_id) ==
    IF ~IsSome(row.month_day) THEN <<>>
    ELSE LET ps == sorted(DOMAIN row.pcts)
         IN  [i \in 1..Len(ps) |->
                 [site_no |-> site_id, stat_type |-> PctName(ps[i]),
                  month |-> Get(row.month_day)[1], day |-> Get(row.month_day)[2],
                  value |-> row.pcts[ps[i]],
                  years_of_record |-> None, begin_year |-> None, end_year |-> None]]

\* usgs_percentiles.save_percentiles_to_db(df, site_id)
save_percentiles_to_db(table, df, site_id, db_ok, now) ==
    LET records == Concat([i \in 1..Len(df) |-> row_records(df[i], site_id)])
    IN  IF records = <<>> THEN [table |-> table, count |-> 0]
        ELSE IF db_ok /\ ~affects_row_twice(records)
        THEN [table |-> insert_on_conflict(table, records, {"value", "updated_at"}, now),
              count |-> Len(records)]
        ELSE [table |-> table, count |-> 0]

\* save_conditions that leaves a conflicting row as it is
save_conditions_bad(table, conditions, db_ok, now) ==
    LET keys == {conditions[i].site_no : i \in 1..Len(conditions)}
        excluded(k) ==
            LET c == conditions[CHOOSE i \in 1..Len(conditions) :
                                   conditions[i].site_no = k]
            IN  [updated_at |-> now] @@ c
    IN  IF conditions = <<>> \/ ~db_ok
        THEN [table |-> table, committed |-> FALSE]
        ELSE [table |-> [k \in (DOMAIN table) \cup keys |->
                            IF k \in DOMAIN table THEN table[k] ELSE excluded(k)],
              committed |-> TRUE]

\* usgs_live_conditions.save_conditions(conditions): the table afterwards and
\* whether the statement committed; every column is refreshed on conflict
save_conditions(table, conditions, db_ok, now) ==
    LET keys == {conditions[i].site_no : i \in 1..Len(conditions)}
        twice == \E i, j \in 1..Len(conditions) :
                    i < j /\ conditions[i].site_no = conditions[j].site_no
        excluded(k) ==
            LET c == conditions[CHOOSE i \in 1..Len(conditions) :
                                   conditions[i].site_no = k]
            IN  [updated_at |-> now] @@ c
    IN  IF conditions = <<>> \/ ~db_ok \/ twice
        THEN [table |-> table, committed |-> FALSE]
        ELSE [table |-> [k \in (DOMAIN table) \cup keys |->
                            IF k \in keys THEN excluded(k) ELSE table[k]],
              committed |-> TRUE]

\* bounds of the data handed to the writers
MaxRecords == 2
MaxClock == 3
MaxRuns == 2

StoreSites == {1, 2}

RECURSIVE SeqsUpTo(_, _)
SeqsUpTo(S, n) ==
    IF n = 0 THEN {<<>>}
    ELSE LET shorter == SeqsUpTo(S, n - 1)
         IN  shorter \cup {Append(q, x) : q \in shorter, x \in S}

StatRecords ==
    {[rdb_record(s) EXCEPT !.value = v] : s \in StoreSites, v \in {100, 200}}
        \cup {json_record(s) : s \in StoreSites}

FrameRows ==
    {[month_day |-> None, pcts |-> (50 :> 100)],
     [month_day |-> Some(<<1, 1>>), pcts |-> (50 :> 100)],
     [month_day |-> Some(<<1, 1>>), pcts |-> (5 :> 40) @@ (50 :> 200)],
     [month_day |-> Some(<<1, 2>>), pcts |-> (95 :> 900)]}

Conditions ==
    {compute_live_condition(s, r, Scenario, <<>>, 0) :
        s \in StoreSites,
        r \in [flow_cfs : {None, Some(50), Some(500)}, gage_height_ft : {Some(3)},
               water_temp_c : {None}, timestamp : {0}]}

\* a row another writer left earlier
OldTable ==
    <<1, PARAM_CODE, "p50", 1, 1>> :>
        [value |-> 50, years_of_record |-> Some(10), begin_year |-> Some(1980),
         end_year |-> Some(1990), updated_at |-> 0]

InitStore ==
    /\ \/ fn \in {"save_records", "save_statistics"}
          /\ \E records \in SeqsUpTo(StatRecords, MaxRecords) : args = <<records>>
       \/ fn = "save_percentiles_to_db"
          /\ \E df \in SeqsUpTo(FrameRows, MaxRecords) : \E s \in StoreSites :
                args = <<df, s>>
       \/ fn = "save_conditions"
          /\ \E conditions \in SeqsUpTo(Conditions, MaxRecords) : args = <<conditions>>
    /\ ret = <<>>
    /\ returned = FALSE
    /\ usgs_statistics \in {<<>>, OldTable}
    /\ usgs_live_conditions = <<>>
    /\ clock = 1
    /\ runs = 0
    /\ first_run = None
    /\ last_saved = <<>>
    /\ s3 = <<>>
    /\ uploads = <<>>
    /\ IngestIdle

\* time passes between two writes
Tick ==
    /\ clock < MaxClock
    /\ clock' = clock + 1
    /\ UNCHANGED <<usgs_statistics, usgs_live_conditions, runs, first_run,
                   last_saved, S3Vars, LiveVars, IngestVars>>

\* a writer's effect on the tables, and the count of committed writes
Written(stats, live, committed) ==
    /\ runs < MaxRuns
    /\ usgs_statistics' = stats
    /\ usgs_live_conditions' = live
    /\ runs' = IF committed THEN runs + 1 ELSE runs
    /\ first_run' = IF committed /\ runs = 0 THEN Some(<<stats, live>>) ELSE first_run
    /\ UNCHANGED <<clock, last_saved, S3Vars, LiveVars, IngestVars>>

SaveRecords ==
    /\ fn = "save_records"
    /\ \E db_ok \in BOOLEAN :
          LET saved == save_records(usgs_statistics, args[1], db_ok, clock)
          IN  Written(saved.table, usgs_live_conditions, saved.count > 0)

SaveStatistics ==
    /\ fn = "save_statistics"
    /\ \E db_ok \in BOOLEAN :
          LET saved == save_statistics(usgs_statistics, args[1], db_ok, clock)
          IN  Written(saved.table, usgs_live_conditions, saved.count > 0)

SavePercentilesToDb ==
    /\ fn = "save_percentiles_to_db"
    /\ \E db_ok \in BOOLEAN :
          LET saved == save_percentiles_to_db(usgs_statistics, args[1], args[2],
                                              db_ok, clock)
          IN  Written(saved.table, usgs_live_conditions, saved.count > 0)

SaveConditions ==
    /\ fn = "save_conditions"
    /\ \E db_ok \in BOOLEAN :
          LET saved == save_conditions(usgs_live_conditions, args[1], db_ok, clock)
          IN  Written(usgs_statistics, saved.table, saved.committed)

NextStore ==
    \/ Tick
    \/ SaveRecords
    \/ SaveStatistics
    \/ SavePercentilesToDb
    \/ SaveConditions

SpecStore == InitStore /\ [][NextStore]_vars

\* tables s and t hold the same keys and, in every column but updated_at,
\* the same values
SameButUpdatedAt(s, t) ==
    /\ DOMAIN s = DOMAIN t
    /\ \A k \in DOMAIN s :
          /\ DOMAIN s[k] = DOMAIN t[k]
          /\ \A c \in (DOMAIN s[k]) \ {"updated_at"} : s[k][c] = t[k][c]

----------------------------------------------------------------------------
(* Monitoring runs saving live conditions one after another: SpecConditions *)

\* conditions saved for one site over the runs examined
MaxSaves == 3

InitConditions ==
    /\ StoreEmpty
    /\ LiveIdle
    /\ IngestIdle

\* run_live_monitor's save_conditions(conditions) of one run
RunSaveConditions ==
    \E conditions \in SeqsUpTo(Conditions, MaxRecords) : \E db_ok \in BOOLEAN :
       LET saved == save_conditions(usgs_live_conditions, conditions, db_ok, clock)
           keys == {conditions[i].site_no : i \in 1..Len(conditions)}
           given(k) == conditions[CHOOSE i \in 1..Len(conditions) :
                                     conditions[i].site_no = k]
           before(k) == IF k \in DOMAIN last_saved THEN last_saved[k].saves ELSE 0
       IN  /\ \A k \in keys : before(k) < MaxSaves
           /\ usgs_live_conditions' = saved.table
           /\ last_saved' =
                 IF saved.committed
                 THEN [k \in (DOMAIN last_saved) \cup keys |->
                          IF k \in keys
                          THEN [condition |-> given(k), saves |-> before(k) + 1]
                          ELSE last_saved[k]]
                 ELSE last_saved
           /\ UNCHANGED <<usgs_statistics, clock, runs, first_run, S3Vars, LiveVars,
                          IngestVars>>

NextConditions ==
    \/ Tick
    \/ RunSaveConditions

SpecConditions == InitConditions /\ [][NextConditions]_vars

\* C13: after any sequence of save_conditions calls the live-conditions store
\* holds at most one row per site, and that row carries every field of the
\* condition most recently saved for the site.
C13_LatestValueWins ==
    /\ DOMAIN usgs_live_conditions = DOMAIN last_saved
    /\ \A s \in StoreSites :
          Cardinality({k \in DOMAIN usgs_live_conditions :
                          usgs_live_conditions[k].site_no = s}) <= 1
    /\ \A k \in DOMAIN usgs_live_conditions :
          /\ usgs_live_conditions[k].site_no = k
          /\ \A f \in DOMAIN last_saved[k].condition :
                usgs_live_conditions[k][f] = last_saved[k].condition[f]

\* a site's row was overwritten: three conditions were saved for site 1 and
\* its row holds the last one, written after the row of site 2
C13_Witness ==
    /\ 1 \in DOMAIN last_saved
    /\ 2 \in DOMAIN last_saved
    /\ last_saved[1].saves >= 3
    /\ usgs_live_conditions[1].flow_cfs = Some(50)
    /\ usgs_live_conditions[1].updated_at > usgs_live_conditions[2].updated_at

----------------------------------------------------------------------------
(* The statistics writers writing one after another: SpecWrites *)

\* the percentile ranks among usgs_statistics_robust.STAT_COLS
STAT_COLS == {10, 25, 50, 75, 90}

\* the ranks and values of the upstream results examined
WriteRanks == {5, 10}
WriteValues == {100, 200}

\* an upstream result for site 1, January 1: values for some of the ranks,
\* non-decreasing in rank
UpstreamStats ==
    {v \in UNION {[D -> WriteValues] : D \in (SUBSET WriteRanks) \ {{}}} :
        \A q1, q2 \in DOMAIN v : q1 < q2 => v[q1] <= v[q2]}

\* count_nu, begin_yr, end_yr of an upstream result: the service's answer of
\* one year, and of the year after
Meta1 == [years_of_record |-> Some(30), begin_year |-> Some(1990), end_year |-> Some(2020)]
Meta2 == [years_of_record |-> Some(31), begin_year |-> Some(1991), end_year |-> Some(2021)]

\* the upstream results <<values, metadata>>: every one with the first year's
\* metadata, the complete ones also with the second year's
UpstreamResults ==
    {<<v, Meta1>> : v \in UpstreamStats}
        \cup {<<v, Meta2>> : v \in {w \in UpstreamStats : DOMAIN w = WriteRanks}}

\* writes in the sequences examined
MaxWrites == 2

\* the records a fetcher that reads the columns of `ranks` builds from an
\* upstream result
records_of(v, meta, ranks) ==
    LET ps == sorted((DOMAIN v) \cap ranks)
    IN  [i \in 1..Len(ps) |->
            [site_no |-> 1, stat_type |-> PctName(ps[i]), month |-> 1, day |-> 1,
             value |-> v[ps[i]], years_of_record |-> meta.years_of_record,
             begin_year |-> meta.begin_year, end_year |-> meta.end_year]]

InitWrites ==
    /\ StoreEmpty
    /\ LiveIdle
    /\ IngestIdle

\* a writer was called with records and left table saved.table, and time
\* passes before the next call; ret keeps the
\* count it returned, the time of the call and the keys stored before it
WriteStep(writer, records, saved) ==
    /\ usgs_statistics' = saved.table
    /\ fn' = writer
    /\ args' = <<records>>
    /\ ret' = [count |-> saved.count, at |-> clock,
               replaced |-> {KeyOf(records[i]) : i \in 1..Len(records)}
                               \cap DOMAIN usgs_statistics]
    /\ returned' = TRUE
    /\ clock' = clock + 1
    /\ UNCHANGED <<usgs_live_conditions, runs, first_run, last_saved, S3Vars,
                   IngestVars>>

RunSaveRecords ==
    /\ clock < MaxWrites
    /\ \E u \in UpstreamResults : \E db_ok \in BOOLEAN :
       LET records == records_of(u[1], u[2], PERCENTILES)
       IN  WriteStep("save_records", records,
                     save_records(usgs_statistics, records, db_ok, clock))

RunSaveStats ==
    /\ clock < MaxWrites
    /\ \E u \in UpstreamResults : \E db_ok \in BOOLEAN :
       LET records == records_of(u[1], u[2], PERCENTILES)
       IN  WriteStep("save_stats", records,
                     save_stats(usgs_statistics, records, db_ok, clock))

RunSaveStatistics ==
    /\ clock < MaxWrites
    /\ \E u \in UpstreamResults : \E db_ok \in BOOLEAN :
       LET records == records_of(u[1], u[2], PERCENTILES)
       IN  WriteStep("save_statistics", records,
                     save_statistics(usgs_statistics, records, db_ok, clock))

RunFetchAndSaveSite ==
    /\ clock < MaxWrites
    /\ \E u \in UpstreamResults : \E db_ok \in BOOLEAN :
       LET records == records_of(u[1], u[2], STAT_COLS)
       IN  WriteStep("fetch_and_save_site", records,
                     fetch_and_save_site(usgs_statistics, records, db_ok, clock))

RunSavePercentilesToDb ==
    /\ clock < MaxWrites
    /\ \E v \in UpstreamStats : \E db_ok \in BOOLEAN :
       LET df == <<[month_day |-> Some(<<1, 1>>), pcts |-> v]>>
       IN  WriteStep("save_percentiles_to_db", row_records(df[1], 1),
                     save_percentiles_to_db(usgs_statistics, df, 1, db_ok, clock))

NextWrites ==
    \/ RunSaveRecords
    \/ RunSaveStats
    \/ RunSaveStatistics
    \/ RunFetchAndSaveSite
    \/ RunSavePercentilesToDb

SpecWrites == InitWrites /\ [][NextWrites]_vars

\* the last call wrote a row over a stored key
WroteOverStoredKey == returned /\ ret.count > 0 /\ ret.replaced # {}

\* after the last call, every stored key it wrote over holds the written row
StaleRowsReplaced ==
    \A i \in 1..Len(args[1]) :
        KeyOf(args[1][i]) \in ret.replaced =>
            usgs_statistics[KeyOf(args[1][i])] = RowOf(args[1][i], ret.at)

\* C14: in every statistics writer, writing a row whose natural key already
\* exists replaces the stale row: every non-key column of the stored row
\* (value, years_of_record, begin_year, end_year, updated_at) equals the
\* newly written row's.
C14_ConflictReplacesRow ==
    WroteOverStoredKey => StaleRowsReplaced

\* C14, usgs_statistics_ingest.save_statistics only: it lists all five
\* columns in DO UPDATE SET
C14_SaveStatisticsReplaces ==
    (WroteOverStoredKey /\ fn = "save_statistics") => StaleRowsReplaced

\* C14, the columns every updating writer refreshes: value and updated_at
\* (fetch_and_save_site refreshes none)
C14_ValueRefreshed ==
    (WroteOverStoredKey /\ fn # "fetch_and_save_site") =>
        \A i \in 1..Len(args[1]) :
            /\ usgs_statistics[KeyOf(args[1][i])].value = args[1][i].value
            /\ usgs_statistics[KeyOf(args[1][i])].updated_at = ret.at

\* the stored thresholds of site s on month m, day d: rank -> value
StoredThresholds(s, m, d) ==
    LET ranks == {q \in PERCENTILES :
                     <<s, PARAM_CODE, PctName(q), m, d>> \in DOMAIN usgs_statistics}
    IN  [q \in ranks |-> usgs_statistics[<<s, PARAM_CODE, PctName(q), m, d>>].value]

\* C15: after any sequence of writes by the statistics writers, each of them
\* given an upstream result that is non-decreasing in rank, the stored
\* thresholds of each site and day are non-decreasing in percentile rank.
C15_StoredThresholdsMonotone ==
    LET t == StoredThresholds(1, 1, 1)
    IN  \A q1, q2 \in DOMAIN t : q1 < q2 => t[q1] <= t[q2]

----------------------------------------------------------------------------
(* Ingest runs one after another over the same store: SpecReruns *)

\* runs in the sequences examined
MaxIngestRuns == 2

\* the gauge counts of the rerun sequences: one site, and a batch and a site
RerunGaugeCounts == {1, SITES_PER_BATCH + 1}

InitReruns == InitRun(RerunGaugeCounts)

\* the program is started again, either ingest, on the store the earlier
\* runs left
NextRun ==
    /\ pc = "done"
    /\ runs + 1 < MaxIngestRuns
    /\ runs' = runs + 1
    /\ program' \in {"parallel", "sequential"}
    /\ pc' = "start"
    /\ sites' = <<>>
    /\ batches' = <<>>
    /\ chunk_start' = 0
    /\ task' = <<>>
    /\ semaphore' = 0
    /\ batch_idx' = 0
    /\ total_records' = 0
    /\ total_sites' = 0
    /\ failed_batches' = 0
    /\ report' = {}
    /\ UNCHANGED <<gauges, usgs_statistics, usgs_live_conditions, clock, first_run,
                   last_saved, S3Vars, LiveVars>>

NextReruns ==
    \/ NextIngest
    \/ NextRun

SpecReruns == InitReruns /\ [][NextReruns]_vars

----------------------------------------------------------------------------
(* Concurrent tasks against fixed upstream responses: SpecGather.  The
   responses of the services and of the database are drawn once, in args, and
   every task receives the one drawn for it whenever it runs. *)

MAX_WORKERS == 5

\* the gauges of the parallel ingest here: two batches and a site
GatherGaugeCount == 2 * SITES_PER_BATCH + 1

\* the sites get_sites_for_state returns
StateSites == {1, 2, 3}

\* what the statistics service does with a batch's request
BatchResponses(batch) ==
    {[kind |-> k, payload |-> {}] : k \in {"status", "error", "read_error"}}
        \cup {[kind |-> "text", payload |-> p] : p \in Payloads(batch)}
        \cup {[kind |-> "text_twice", payload |-> SitesOf(batch)]}

\* parse_rdb_response(text) of an answer that lists the day of its first site
\* under two time series: one record per data row
parse_rdb_response_twice(payload) ==
    parse_rdb_response(payload) \o <<rdb_record(sorted(payload)[1])>>

\* what process_site meets for a site: no history or no percentiles, or a
\* frame of percentiles and the database's answer to its write
SiteResponses ==
    {[kind |-> "none", df |-> <<>>, db |-> "ok"]}
        \cup {[kind |-> "frame", df |-> df, db |-> "ok"] :
                 df \in {<<[month_day |-> Some(<<1, 1>>), pcts |-> (50 :> 100)]>>,
                         <<[month_day |-> Some(<<1, 1>>), pcts |-> (5 :> 40) @@ (50 :> 200)],
                           [month_day |-> Some(<<1, 2>>), pcts |-> (95 :> 900)]>>}}
        \cup {[kind |-> "frame",
               df |-> <<[month_day |-> Some(<<1, 1>>), pcts |-> (50 :> 100)]>>,
               db |-> d] : d \in {"rollback", "no_connection"}}

InitGather ==
    /\ StoreEmpty
    /\ ret = <<>>
    /\ returned = FALSE
    /\ sites = <<>>
    /\ pc = "start"
    /\ batches = <<>>
    /\ chunk_start = 0
    /\ task = <<>>
    /\ semaphore = 0
    /\ batch_idx = 0
    /\ total_records = 0
    /\ total_sites = 0
    /\ failed_batches = 0
    /\ report = {}
    /\ \/ /\ program = "parallel"
          /\ fn = "main"
          /\ gauges = 1..GatherGaugeCount
          /\ LET bs == make_batches(sorted(gauges), SITES_PER_BATCH)
             IN  \E responses \in [1..Len(bs) -> UNION {BatchResponses(bs[b]) : b \in 1..Len(bs)}],
                    db_ok \in BOOLEAN :
                    /\ \A b \in 1..Len(bs) : responses[b] \in BatchResponses(bs[b])
                    /\ args = [responses |-> responses, db_ok |-> db_ok]
       \/ /\ program = "percentiles"
          /\ fn = "generate_state_percentiles"
          /\ gauges = StateSites
          /\ \E responses \in [StateSites -> SiteResponses] :
                args = [responses |-> responses, db_ok |-> TRUE]

\* fetch_batch against the response drawn for its batch
GatherAcquire(b) ==
    /\ program = "parallel"
    /\ Acquire(b)

GatherResponse200(b) ==
    /\ args.responses[b].kind \in {"text", "text_twice", "read_error"}
    /\ Response200(b)

GatherResponseNot200(b) ==
    /\ args.responses[b].kind = "status"
    /\ ResponseNot200(b)

GatherRequestError(b) ==
    /\ \/ task[b].pc = "get" /\ args.responses[b].kind = "error"
       \/ task[b].pc = "text" /\ args.responses[b].kind = "read_error"
    /\ RequestError(b)

GatherTextRead(b) ==
    /\ args.responses[b].kind = "text"
    /\ TextRead(b)
    /\ task'[b].result = parse_rdb_response(args.responses[b].payload)

\* fetch_batch: the text of an answer with a repeated row arrives
GatherTextReadTwice(b) ==
    /\ args.responses[b].kind = "text_twice"
    /\ pc = "gather"
    /\ task[b].pc = "text"
    /\ semaphore' = semaphore + 1
    /\ TaskStep(b, "done", parse_rdb_response_twice(args.responses[b].payload))

\* main's save of the chunk, with the database's answer as drawn
GatherSaveChunk ==
    /\ fn = "main"
    /\ SaveChunk(args.db_ok)

\* generate_state_percentiles up to the loop over the completed futures: one
\* future per site is submitted to the pool
Submit ==
    /\ program = "percentiles"
    /\ pc = "start"
    /\ sites' = sorted(gauges)
    /\ task' = [s \in gauges |-> [pc |-> "queued", result |-> 0]]
    /\ pc' = "as_completed"
    /\ UNCHANGED <<program, gauges, batches, chunk_start, semaphore, batch_idx,
                   total_records, total_sites, failed_batches, report,
                   StoreVars, LiveVars>>

\* a free worker of the pool takes a queued future
StartWorker(s) ==
    /\ program = "percentiles"
    /\ pc = "as_completed"
    /\ task[s].pc = "queued"
    /\ Cardinality({t \in DOMAIN task : task[t].pc = "running"}) < MAX_WORKERS
    /\ task' = [task EXCEPT ![s].pc = "running"]
    /\ UNCHANGED <<program, gauges, sites, pc, batches, chunk_start, semaphore,
                   batch_idx, total_records, total_sites, failed_batches, report,
                   StoreVars, LiveVars>>

\* process_site(site_id) against the response r, on the table as it is at
\* time now: the table it leaves and the future's outcome, -1 if it raised
process_site(table, site_id, r, now) ==
    IF r.kind = "none" THEN [table |-> table, count |-> 0]
    ELSE IF r.db = "no_connection" THEN [table |-> table, count |-> -1]
    ELSE save_percentiles_to_db(table, r.df, site_id, r.db = "ok", now)

\* a worker runs process_site to its end
ProcessSite(s) ==
    /\ program = "percentiles"
    /\ pc = "as_completed"
    /\ task[s].pc = "running"
    /\ LET done == process_site(usgs_statistics, s, args.responses[s], clock)
       IN  /\ usgs_statistics' = done.table
           /\ task' = [task EXCEPT ![s] = [pc |-> "finished", result |-> done.count]]
    /\ clock' = clock + 1
    /\ UNCHANGED <<program, gauges, sites, pc, batches, chunk_start, semaphore,
                   batch_idx, total_records, total_sites, failed_batches, report,
                   usgs_live_conditions, runs, first_run, last_saved, S3Vars,
                   LiveVars>>

\* totals that keep the count of the last future seen
count_future_bad(totals, count) ==
    IF count > 0
    THEN [success_count |-> totals.success_count + 1, total_records |-> count]
    ELSE totals

\* the body of the loop over as_completed: a future that raised is logged
count_future(totals, count) ==
    IF count > 0
    THEN [success_count |-> totals.success_count + 1,
          total_records |-> totals.total_records + count]
    ELSE totals

\* as_completed yields a finished future; total_sites holds success_count
Completed(s) ==
    /\ program = "percentiles"
    /\ pc = "as_completed"
    /\ task[s].pc = "finished"
    /\ LET totals == count_future([success_count |-> total_sites,
                                   total_records |-> total_records],
                                  task[s].result)
       IN  /\ total_sites' = totals.success_count
           /\ total_records' = totals.total_records
    /\ task' = [task EXCEPT ![s].pc = "collected"]
    /\ UNCHANGED <<program, gauges, sites, pc, batches, chunk_start, semaphore,
                   batch_idx, failed_batches, report, StoreVars, LiveVars>>

\* every future has been yielded: the summary is returned
ReturnSummary ==
    /\ program = "percentiles"
    /\ pc = "as_completed"
    /\ \A s \in DOMAIN task : task[s].pc = "collected"
    /\ ret' = [sites_total |-> Len(sites), sites_success |-> total_sites,
               records |-> total_records]
    /\ returned' = TRUE
    /\ pc' = "done"
    /\ UNCHANGED <<fn, args, program, gauges, sites, batches, chunk_start, task,
                   semaphore, batch_idx, total_records, total_sites,
                   failed_batches, report, StoreVars>>

NextGather ==
    \/ ParStart
    \/ \E b \in DOMAIN task : GatherAcquire(b)
    \/ \E b \in DOMAIN task : GatherResponse200(b)
    \/ \E b \in DOMAIN task : GatherResponseNot200(b)
    \/ \E b \in DOMAIN task : GatherRequestError(b)
    \/ \E b \in DOMAIN task : GatherTextRead(b)
    \/ \E b \in DOMAIN task : GatherTextReadTwice(b)
    \/ GatherSaveChunk
    \/ ParAfterSleep
    \/ Submit
    \/ \E s \in DOMAIN task : StartWorker(s)
    \/ \E s \in DOMAIN task : ProcessSite(s)
    \/ \E s \in DOMAIN task : Completed(s)
    \/ ReturnSummary

SpecGather == InitGather /\ [][NextGather]_vars

\* the records main parses from a batch's response
response_records(r) ==
    CASE r.kind = "text" -> parse_rdb_response(r.payload)
      [] r.kind = "text_twice" -> parse_rdb_response_twice(r.payload)
      [] OTHER -> <<>>

\* the batches fetched one at a time, in the order of the list, and the chunk
\* saved by main
RECURSIVE BatchesInTurn(_, _, _)
BatchesInTurn(bs, b, acc) ==
    IF b > Len(bs)
    THEN LET saved == save_records(<<>>, acc, args.db_ok, 0)
         IN  [table |-> saved.table,
              total_records |-> saved.count,
              total_sites |-> IF acc = <<>> THEN 0
                              ELSE Cardinality({acc[i].site_no : i \in 1..Len(acc)})]
    ELSE BatchesInTurn(bs, b + 1, acc \o response_records(args.responses[b]))

\* the sites processed one at a time, in the order of the list
RECURSIVE SitesInTurn(_, _, _)
SitesInTurn(order, i, acc) ==
    IF i > Len(order) THEN acc
    ELSE LET done == process_site(acc.table, order[i], args.responses[order[i]], i)
             totals == count_future(acc.totals, done.count)
         IN  SitesInTurn(order, i + 1, [table |-> done.table, totals |-> totals])

\* C17: for fixed upstream responses the final statistics store, ignoring
\* updated_at, and the reported totals of sites and records are those of the
\* tasks run one at a time in list order, whatever the interleaving and the
\* completion order of the batch tasks of the parallel ingest and of the site
\* tasks of the thread-pool percentile generator.
C17_CompletionOrderIrrelevant ==
    /\ program = "parallel" /\ pc = "done" =>
          LET serial == BatchesInTurn(batches, 1, <<>>)
          IN  /\ SameButUpdatedAt(usgs_statistics, serial.table)
              /\ report = {<<"Sites", serial.total_sites>>,
                           <<"Records", serial.total_records>>}
    /\ program = "percentiles" /\ returned =>
          LET serial == SitesInTurn(sites, 1,
                            [table |-> <<>>,
                             totals |-> [success_count |-> 0, total_records |-> 0]])
          IN  /\ SameButUpdatedAt(usgs_statistics, serial.table)
              /\ ret = [sites_total |-> Len(sites),
                        sites_success |-> serial.totals.success_count,
                        records |-> serial.totals.total_records]

\* the generator has returned after site 3 wrote its rows before site 2 and
\* site 2 before site 1
C17_Witness ==
    /\ program = "percentiles"
    /\ returned
    /\ ret.sites_success = 3
    /\ \E k1, k2, k3 \in DOMAIN usgs_statistics :
          /\ k1[1] = 1 /\ k2[1] = 2 /\ k3[1] = 3
          /\ usgs_statistics[k3].updated_at < usgs_statistics[k2].updated_at
          /\ usgs_statistics[k2].updated_at < usgs_statistics[k1].updated_at

----------------------------------------------------------------------------
(* The points handed to calculate_trend: SpecHistory.  usgs_readings is the
   table of usgs_gauges.py, UNIQUE(site_no, reading_time): a function of that
   key.  The bucket is a function of the history keys, a key being the stamp
   strptime reads from its file name, or None where the name does not parse. *)

\* get_historical_readings(site_no, hours) on the table at time now
get_historical_readings(usgs_readings, site_no, hours, now) ==
    LET times == {k[2] : k \in {k \in DOMAIN usgs_readings :
                                   /\ k[1] = site_no
                                   /\ k[2] > now - hours * TicksPerHour}}
        order == sorted(times)
    IN  [i \in 1..Len(order) |->
            [reading_time |-> order[i]] @@ usgs_readings[<<site_no, order[i]>>]]

\* the lists compute_live_condition builds for calculate_trend, None where it
\* does not call it
trend_values(history, column, current, now, min_points) ==
    LET kept == SelectSeq(history, LAMBDA h : IsSome(h[column]))
        values == Append([i \in 1..Len(kept) |->
                             <<kept[i].reading_time, Get(kept[i][column])>>],
                         <<now, Get(current)>>)
    IN  IF history # <<>> /\ IsSome(current) /\ Len(values) >= min_points
        THEN Some(values) ELSE None

\* S3Client.list_historical_snapshots(hours) at time now
list_historical_snapshots(bucket, hours, now) ==
    LET cutoff_time == now - hours * TicksPerHour
        stamps == {Get(k) : k \in {k \in DOMAIN bucket : IsSome(k) /\ Get(k) >= cutoff_time}}
        keys == sorted(stamps)
    IN  [i \in 1..Len(keys) |-> Some(keys[i])]

\* S3Client.get_site_history(site_id, hours) at time now
get_site_history(bucket, site_id, hours, now) ==
    LET keys == list_historical_snapshots(bucket, hours, now)
        usable == SelectSeq(keys, LAMBDA k :
                      /\ IsSome(bucket[k])
                      /\ site_id \in DOMAIN Get(bucket[k])
                      /\ IsSome(Get(bucket[k])[site_id].flow))
    IN  [i \in 1..Len(usable) |->
            [timestamp |-> Get(usable[i]),
             flow |-> Get(Get(bucket[usable[i]])[site_id].flow),
             temp |-> Get(bucket[usable[i]])[site_id].water_temp]]

\* the hours get_site_history looks back by default
SNAPSHOT_HOURS == 48

\* reading times in ticks, around the edge of the trend window of the clocks
ReadingTimes == {0, 12, 300, 310}
MonitorClocks == {299, 300, 320}
StoredReadings ==
    {[streamflow_cfs |-> None, water_temp_c |-> Some(4)],
     [streamflow_cfs |-> Some(400), water_temp_c |-> None],
     [streamflow_cfs |-> Some(500), water_temp_c |-> Some(4)]}

\* tables of readings of site 1 beside one reading of site 2
ReadingTables ==
    {t @@ (<<2, 305>> :> [streamflow_cfs |-> Some(7), water_temp_c |-> None]) :
        t \in UNION {[{1} \X T -> StoredReadings] : T \in SUBSET ReadingTimes}}

\* history keys around the edge of the snapshot window, and one that is no stamp
SnapshotKeys == {Some(0), Some(24), Some(600), None}
SnapshotClocks == {600, 610}
Snapshots ==
    {None, Some(<<>>),
     Some(1 :> [flow |-> None, water_temp |-> Some(4)]),
     Some(1 :> [flow |-> Some(400), water_temp |-> None])}
Buckets == UNION {[K -> Snapshots] : K \in SUBSET SnapshotKeys}

InitHistory ==
    \/ \E t \in ReadingTables, now \in MonitorClocks :
          Call("get_historical_readings",
               [usgs_readings |-> t, site_no |-> 1, hours |-> TREND_WINDOW_HOURS,
                now |-> now])
    \/ \E t \in ReadingTables, now \in MonitorClocks :
          \E flow \in {None, Some(450)}, temp \in {None, Some(5)} :
             Call("compute_live_condition",
                  [usgs_readings |-> t, site_no |-> 1, now |-> now,
                   reading |-> [flow_cfs |-> flow, gage_height_ft |-> None,
                                water_temp_c |-> temp, timestamp |-> now]])
    \/ \E b \in Buckets, now \in SnapshotClocks :
          Call("get_site_history",
               [bucket |-> b, site_id |-> 1, hours |-> SNAPSHOT_HOURS, now |-> now])

GetHistoricalReadings ==
    /\ fn = "get_historical_readings"
    /\ Return(get_historical_readings(args.usgs_readings, args.site_no, args.hours,
                                      args.now))

\* compute_live_condition from the history query to the calls of
\* calculate_trend: the lists handed over
TrendCalls ==
    /\ fn = "compute_live_condition"
    /\ LET history == get_historical_readings(args.usgs_readings, args.site_no,
                                              TREND_WINDOW_HOURS, args.now)
       IN  Return([flow_values |-> trend_values(history, "streamflow_cfs",
                                      args.reading.flow_cfs, args.now, TREND_MIN_POINTS),
                   temp_values |-> trend_values(history, "water_temp_c",
                                      args.reading.water_temp_c, args.now, TREND_MIN_POINTS)])

GetSiteHistory ==
    /\ fn = "get_site_history"
    /\ Return(get_site_history(args.bucket, args.site_id, args.hours, args.now))

NextHistory ==
    \/ GetHistoricalReadings
    \/ TrendCalls
    \/ GetSiteHistory

SpecHistory == InitHistory /\ [][NextHistory]_vars

\* the relational history query returns a site's readings ascending by
\* reading_time, none repeated
C18_QueryAscending ==
    Called("get_historical_readings") =>
        \A i, j \in 1..Len(ret) : i < j => ret[i].reading_time < ret[j].reading_time

\* the snapshot replay returns points ascending by snapshot timestamp, none
\* repeated
C18_ReplayAscending ==
    Called("get_site_history") =>
        \A i, j \in 1..Len(ret) : i < j => ret[i].timestamp < ret[j].timestamp

StrictlyIncreasing(values) ==
    \A i, j \in 1..Len(values) : i < j => values[i][1] < values[j][1]

\* C18: every list of (timestamp, value) points handed to the trend function
\* is strictly increasing in timestamp with no repeated timestamp: the history
\* query and the snapshot replay return their points in ascending order, and
\* the list stays strictly increasing after compute_live_condition appends the
\* current reading as the last point.
C18_PointsStrictlyIncreasing ==
    /\ C18_QueryAscending
    /\ C18_ReplayAscending
    /\ Called("compute_live_condition") =>
          /\ IsSome(ret.flow_values) => StrictlyIncreasing(Get(ret.flow_values))
          /\ IsSome(ret.temp_values) => StrictlyIncreasing(Get(ret.temp_values))

----------------------------------------------------------------------------
(* s3_client.py: upload_live_output over a sequence of monitoring runs:
   SpecUploads.  The clock counts minutes here, strftime('%Y-%m-%dT%H%M') of
   datetime.utcnow(); calls with no Tick between them are in one minute. *)

LIVE_OUTPUT_PREFIX == "live_output"

current_key == <<LIVE_OUTPUT_PREFIX, "current_status.json">>
history_key(timestamp) == <<LIVE_OUTPUT_PREFIX, "history", timestamp>>

\* s3.put_object(Key, Body)
put_object(bucket, key, body) ==
    [k \in (DOMAIN bucket) \cup {key} |-> IF k = key THEN body ELSE bucket[k]]

\* json.dumps(data, separators): the text of a mapping of string keys, numbers
\* and nulls; a TypeError for a value JSON has no form for
json_dumps(data) ==
    IF \E k \in DOMAIN data.sites : data.sites[k].flow = "datetime"
    THEN None
    ELSE Some([json |-> data])

\* S3Client.upload_live_output(data) at time timestamp, the two put_object
\* calls answering as in puts ("ok" or "ClientError"): the bucket it leaves
\* and what it returns, "TypeError" where json.dumps raises
upload_live_output(bucket, data, timestamp, puts) ==
    LET json_data == json_dumps(data)
        first == put_object(bucket, current_key, Get(json_data))
        second == put_object(first, history_key(timestamp), Get(json_data))
    IN  IF ~IsSome(json_data) THEN [bucket |-> bucket, result |-> "TypeError"]
        ELSE IF puts[1] # "ok" THEN [bucket |-> bucket, result |-> "False"]
        ELSE IF puts[2] # "ok" THEN [bucket |-> first, result |-> "False"]
        ELSE [bucket |-> second, result |-> "True"]

\* calls in the sequences examined
MaxUploads == 3

\* the condition mappings of the runs
LiveOutputs ==
    {[site_count |-> 1, sites |-> (1 :> [flow |-> f])] : f \in {"100", "200", "datetime"}}

InitUploads == StoreEmpty /\ LiveIdle /\ IngestIdle

\* one monitoring run uploads its output
UploadLiveOutput ==
    /\ runs < MaxUploads
    /\ \E data \in LiveOutputs, puts \in {"ok", "ClientError"} \X {"ok", "ClientError"} :
          LET done == upload_live_output(s3, data, clock, puts)
          IN  /\ s3' = done.bucket
              /\ uploads' = IF done.result = "True"
                            THEN Append(uploads, [history_key |-> history_key(clock),
                                                  body |-> Get(json_dumps(data))])
                            ELSE uploads
              /\ fn' = "upload_live_output"
              /\ args' = <<data>>
              /\ ret' = done.result
              /\ returned' = TRUE
    /\ runs' = runs + 1
    /\ UNCHANGED <<usgs_statistics, usgs_live_conditions, clock, first_run,
                   last_saved, IngestVars>>

NextUploads ==
    \/ Tick
    \/ UploadLiveOutput

SpecUploads == InitUploads /\ [][NextUploads]_vars

\* a call that returned True wrote the same payload to the current-snapshot
\* document and to the history document of its minute
C19_SamePayloadTwice ==
    (returned /\ ret = "True") =>
        /\ current_key \in DOMAIN s3
        /\ uploads[Len(uploads)].history_key \in DOMAIN s3
        /\ s3[current_key] = [json |-> args[1]]
        /\ s3[uploads[Len(uploads)].history_key] = [json |-> args[1]]

\* C19: each successful upload_live_output call writes the same payload to the
\* current-snapshot document and to a history document named by the
\* minute-resolution timestamp, and the history is append-only: after any
\* sequence of monitoring runs, every history document written by an earlier
\* run still exists with the content that run wrote.
C19_HistoryAppendOnly ==
    /\ C19_SamePayloadTwice
    /\ \A i \in 1..Len(uploads) :
          /\ uploads[i].history_key \in DOMAIN s3
          /\ s3[uploads[i].history_key] = uploads[i].body

----------------------------------------------------------------------------
(* get_flow_status at the top of the percentile range *)

\* C20: get_flow_status returns 'Much Above Normal' for every percentile p
\* with 95 <= p <= 100, including p = 100, the upper end of the percentile
\* range [0,100] of a live condition.
C20_TopBand ==
    (/\ Called("get_flow_status")
     /\ RatLe(IntRat(95), args.percentile)
     /\ RatLe(args.percentile, IntRat(100))) =>
        ret = "Much Above Normal"

\* get_flow_status returns 'Much Above Normal' for every percentile p with
\* 95 <= p < 100
C20_BelowTheTop ==
    (/\ Called("get_flow_status")
     /\ RatLe(IntRat(95), args.percentile)
     /\ RatLt(args.percentile, IntRat(100))) =>
        ret = "Much Above Normal"

\* get_flow_status(100) falls through every band to the default label
C20_TopIsNormal ==
    (Called("get_flow_status") /\ args.percentile = IntRat(100)) => ret = "Normal"

----------------------------------------------------------------------------
(* get_drought_status over the whole ladder *)

\* the label the ladder 2/5/10/20/30 gives a percentile below 30
LadderLabel(p) ==
    IF RatLt(p, IntRat(2)) THEN "D4 - Exceptional Drought"
    ELSE IF RatLt(p, IntRat(5)) THEN "D3 - Extreme Drought"
    ELSE IF RatLt(p, IntRat(10)) THEN "D2 - Severe Drought"
    ELSE IF RatLt(p, IntRat(20)) THEN "D1 - Moderate Drought"
    ELSE "D0 - Abnormally Dry"

\* C21: for every percentile p, get_drought_status is non-null if and only if
\* p < 30, and when non-null it is the label of the lowest threshold of the
\* ladder 2/5/10/20/30 strictly greater than p: D4 for p < 2, D3 for
\* 2 <= p < 5, D2 for 5 <= p < 10, D1 for 10 <= p < 20, D0 for 20 <= p < 30.
C21_DroughtLadder ==
    Called("get_drought_status") =>
        /\ IsSome(ret) <=> RatLt(args.percentile, IntRat(30))
        /\ IsSome(ret) => Get(ret) = LadderLabel(args.percentile)

\* the rung boundary 2.0 was classified, as D3
C21_Witness ==
    /\ Called("get_drought_status")
    /\ args.percentile = IntRat(2)
    /\ ret = Some("D3 - Extreme Drought")

----------------------------------------------------------------------------
(* calculate_trend: hours since the peak *)

\* the hours between the first occurrence of the window's maximum raw value and
\* its last point
HoursSincePeak ==
    LET n == Len(args.values)
        top == MaxOf({args.values[i][2] : i \in 1..n})
        first == MinOf({i \in 1..n : args.values[i][2] = top})
    IN  Rat(args.values[n][1] - args.values[first][1], TicksPerHour)

\* C22: calculate_trend reports a non-null hours-since-peak only when the
\* trend is 'falling' and the time between the maximum raw value of the window
\* and the last point is greater than 0.5 hours; for 'rising', 'stable' and
\* 'unknown' results, and for falling results whose peak is at most 0.5 hours
\* before the last point, hours-since-peak is null.  Where it is reported it
\* is that time rounded to a tenth of an hour.
C22_HoursSincePeak ==
    Called("calculate_trend") =>
        /\ IsSome(ret.hours_since_peak) <=>
              (ret.trend = "falling" /\ RatLt(Rat(1, 2), HoursSincePeak))
        /\ IsSome(ret.hours_since_peak) =>
              Get(ret.hours_since_peak) = round(HoursSincePeak, 10)

\* a falling window whose peak is exactly half an hour before its last point:
\* nothing is reported
C22_Witness ==
    /\ Called("calculate_trend")
    /\ ret.trend = "falling"
    /\ HoursSincePeak = Rat(1, 2)
    /\ ret.hours_since_peak = None

\* a falling window whose peak is an hour before its last point
C22_Reported ==
    /\ Called("calculate_trend")
    /\ ret.trend = "falling"
    /\ ret.hours_since_peak = Some(10)

----------------------------------------------------------------------------
(* calculate_trend: the guards that answer 'unknown' *)

\* the window of the call has at least the minimum point count and a variance
\* that is not negligible
GuardedWindow ==
    /\ Called("calculate_trend")
    /\ Len(args.values) >= TREND_MIN_POINTS
    /\ ~std_negligible([i \in 1..Len(args.values) |-> args.values[i][2]])

\* C23: among windows with at least the minimum point count and non-negligible
\* variance, calculate_trend returns 'unknown' exactly when the elapsed span is
\* under 30 minutes or the window median is near zero (magnitude below 1e-10);
\* every other such window, whatever the sign of its median, is classified
\* 'rising', 'falling' or 'stable'.
C23_UnknownExactly ==
    GuardedWindow =>
        /\ ret.trend = "unknown" <=>
              \/ RatLt(ElapsedHours(args.values), Rat(1, 2))
              \/ median([i \in 1..Len(args.values) |-> args.values[i][2]])[1] = 0
        /\ ret.trend \in {"unknown", "rising", "falling", "stable"}

\* among those windows calculate_trend returns 'unknown' exactly when the
\* elapsed span is under 30 minutes or the window median is below 1e-10, zero
\* and every negative median included
C23_UnknownBelowZero ==
    GuardedWindow =>
        ret.trend = "unknown" <=>
            \/ RatLt(ElapsedHours(args.values), Rat(1, 2))
            \/ median([i \in 1..Len(args.values) |-> args.values[i][2]])[1] <= 0

----------------------------------------------------------------------------
(* usgs_percentiles.py: the percentile routines of the reference-statistics
   generator: SpecReference.  A history df is [discharge: whether it has a
   discharge column, dated: whether its index holds dates, days: day of year
   -> the samples of that day]; hyswap is what the library call does with it,
   [raises |-> TRUE] or its frame. *)

\* the text f"{m:02d}-{d:02d}": two digits, a dash, two digits
Digits == <<"0", "1", "2", "3", "4", "5", "6", "7", "8", "9">>
month_day_text(m, d) ==
    <<Digits[(m \div 10) + 1], Digits[(m % 10) + 1], "-",
      Digits[(d \div 10) + 1], Digits[(d % 10) + 1]>>

\* np.percentile(data, p), linear interpolation between order statistics
np_percentile(data, p) ==
    LET srt == sort_seq(data)
        n == Len(data)
        below == ((n - 1) * p) \div 100
        fraction == Rat(((n - 1) * p) % 100, 100)
        a == srt[below + 1]
        b == srt[Min(below + 2, n)]
    IN  RatAdd(IntRat(a), RatMul(IntRat(b - a), fraction))

\* calculate_percentiles_manual(df, site_id): a sequence of rows in day-of-year
\* order, or None
calculate_percentiles_manual(df, site_id) ==
    IF ~df.discharge THEN None
    ELSE IF ~df.dated THEN None
    ELSE LET kept == {doy \in (DOMAIN df.days) \cap (1..366) : Len(df.days[doy]) >= 5}
             order == sorted(kept)
             results == [i \in 1..Len(order) |->
                            [site_id |-> site_id,
                             month_day |-> month_day_text(((order[i] - 1) \div 31) + 1,
                                                          ((order[i] - 1) % 31) + 1),
                             doy |-> order[i],
                             pcts |-> [q \in PERCENTILES |->
                                          np_percentile(df.days[order[i]], q)]]]
         IN  IF results # <<>> THEN Some(results) ELSE None

\* calculate_percentiles_hyswap that gives up where the library raises
calculate_percentiles_hyswap_bad(df, site_id, HYSWAP_AVAILABLE, hyswap) ==
    IF ~HYSWAP_AVAILABLE THEN calculate_percentiles_manual(df, site_id)
    ELSE IF ~df.discharge THEN None
    ELSE IF hyswap.raises THEN None
    ELSE Some(hyswap.frame)

\* calculate_percentiles_hyswap(df, site_id)
calculate_percentiles_hyswap(df, site_id, HYSWAP_AVAILABLE, hyswap) ==
    IF ~HYSWAP_AVAILABLE THEN calculate_percentiles_manual(df, site_id)
    ELSE IF ~df.discharge THEN None
    ELSE IF hyswap.raises THEN calculate_percentiles_manual(df, site_id)
    ELSE Some(hyswap.frame)

\* the days of the year of the histories: around the ends of January and
\* February and at the end of the year
HistoryDays == {31, 32, 60, 61, 365, 366}

\* the samples a day may have: none, four, five
DaySamples == {<<>>, <<10, 20, 30, 40>>, <<10, 20, 30, 40, 60>>}

Histories ==
    [discharge : BOOLEAN, dated : BOOLEAN, days : [HistoryDays -> DaySamples]]

\* what the library call does
HyswapOutcomes ==
    {[raises |-> TRUE, frame |-> <<>>],
     [raises |-> FALSE,
      frame |-> <<[site_id |-> 1, month_day |-> month_day_text(1, 1), doy |-> 1,
                   pcts |-> [q \in PERCENTILES |-> IntRat(q)]]>>]}

\* save_percentiles_to_db's reading of a row's month_day: the two integers
\* around the dash, None where there is no dash
parse_month_day(text) ==
    IF \E i \in 1..Len(text) : text[i] = "-"
    THEN LET int(c) == (CHOOSE i \in 1..10 : Digits[i] = c) - 1
         IN  Some(<<10 * int(text[1]) + int(text[2]), 10 * int(text[4]) + int(text[5])>>)
    ELSE None

\* df.iterrows() as save_percentiles_to_db reads it
iterrows(frame) ==
    [i \in 1..Len(frame) |->
        [month_day |-> parse_month_day(frame[i].month_day), pcts |-> frame[i].pcts]]

\* int(stat_type[1:]) of a stat_type LIKE 'p%', None for the others
pct_of(stat_type) ==
    IF \E q \in PERCENTILES : PctName(q) = stat_type
    THEN Some(CHOOSE q \in PERCENTILES : PctName(q) = stat_type)
    ELSE None

\* get_percentile_thresholds(site_no, month, day) on the table
get_percentile_thresholds(table, site_no, month, day) ==
    LET found == {k \in DOMAIN table :
                     /\ k[1] = site_no /\ k[4] = month /\ k[5] = day
                     /\ IsSome(pct_of(k[3]))}
    IN  [q \in {Get(pct_of(k[3])) : k \in found} |->
            table[CHOOSE k \in found : Get(pct_of(k[3])) = q].value]

\* the calendar dates of the lookups: the ends of January, February and
\* December and the first of March
LookupDates == {<<1, 31>>, <<2, 29>>, <<3, 1>>, <<12, 31>>}

\* the table after the generator saved the manual rows of a history
SavedManual(df, site_id) ==
    LET frame == calculate_percentiles_manual(df, site_id)
    IN  IF IsSome(frame)
        THEN save_percentiles_to_db(<<>>, iterrows(Get(frame)), site_id, TRUE, 0).table
        ELSE <<>>

\* the rows of usgs_statistics for site 1 on 1 January: the thresholds t as
\* p05..p95 rows, with the day's mean or without
StatTable(t, mean) ==
    LET pcts == save_percentiles_to_db(<<>>, <<[month_day |-> Some(<<1, 1>>), pcts |-> t]>>,
                                       1, TRUE, 0).table
    IN  IF mean THEN insert_on_conflict(pcts, <<json_record(1)>>, StatColumns, 0)
        ELSE pcts

\* usgs_percentiles.get_current_percentile(site_id, current_flow, month, day)
\* on the table: None, or the percentile rounded to one decimal with the
\* function's own flow and drought labels
get_current_percentile(table, site_id, current_flow, month, day) ==
    LET rows == {k \in DOMAIN table : k[1] = site_id /\ k[4] = month /\ k[5] = day}
        starts_with_p == {k \in rows : IsSome(pct_of(k[3]))}
        thresholds == [q \in {Get(pct_of(k[3])) : k \in starts_with_p} |->
                          table[CHOOSE k \in starts_with_p : Get(pct_of(k[3])) = q].value]
        sorted_pcts == sorted(DOMAIN thresholds)
        sorted_vals == [i \in 1..Len(sorted_pcts) |-> thresholds[sorted_pcts[i]]]
        percentile ==
            IF current_flow <= sorted_vals[1] THEN IntRat(sorted_pcts[1])
            ELSE IF current_flow >= sorted_vals[Len(sorted_vals)]
            THEN IntRat(sorted_pcts[Len(sorted_pcts)])
            ELSE np_interp(current_flow, sorted_vals, sorted_pcts)
        below(n) == RatLt(percentile, IntRat(n))
    IN  IF rows = {} \/ Cardinality(DOMAIN thresholds) < 2 THEN None
        ELSE Some([percentile |-> Rat(round(percentile, 10), 10),
                   flow_status |->
                      IF below(10) THEN "Much Below Normal"
                      ELSE IF below(25) THEN "Below Normal"
                      ELSE IF below(75) THEN "Normal"
                      ELSE IF below(90) THEN "Above Normal"
                      ELSE "Much Above Normal",
                   drought_status |->
                      IF below(5) THEN Some("D2 - Severe Drought")
                      ELSE IF below(10) THEN Some("D1 - Moderate Drought")
                      ELSE IF below(25) THEN Some("D0 - Abnormally Dry")
                      ELSE None])

InitReference ==
    \/ \E df \in Histories, available \in BOOLEAN, hyswap \in HyswapOutcomes :
          Call("calculate_percentiles_hyswap",
               [df |-> df, site_id |-> 1, HYSWAP_AVAILABLE |-> available,
                hyswap |-> hyswap])
    \/ \E df \in Histories :
          Call("calculate_percentiles_manual", [df |-> df, site_id |-> 1])
    \/ \E df \in Histories, date \in LookupDates :
          Call("get_percentile_thresholds",
               [df |-> df, usgs_statistics |-> SavedManual(df, 1), site_no |-> 1,
                month |-> date[1], day |-> date[2]])
    \/ \E D \in ThresholdDomains : \E t \in [D -> ThresholdValues] :
          \E x \in Readings, mean \in BOOLEAN :
             Call("get_current_percentile",
                  [site_id |-> 1, current_flow |-> x, month |-> 1, day |-> 1,
                   thresholds |-> t, usgs_statistics |-> StatTable(t, mean)])

CalculatePercentilesHyswap ==
    /\ fn = "calculate_percentiles_hyswap"
    /\ Return(calculate_percentiles_hyswap(args.df, args.site_id,
                                           args.HYSWAP_AVAILABLE, args.hyswap))

CalculatePercentilesManual ==
    /\ fn = "calculate_percentiles_manual"
    /\ Return(calculate_percentiles_manual(args.df, args.site_id))

GetPercentileThresholds ==
    /\ fn = "get_percentile_thresholds"
    /\ Return(get_percentile_thresholds(args.usgs_statistics, args.site_no,
                                        args.month, args.day))

GetCurrentPercentile ==
    /\ fn = "get_current_percentile"
    /\ Return(get_current_percentile(args.usgs_statistics, args.site_id,
                                     args.current_flow, args.month, args.day))

NextReference ==
    \/ CalculatePercentilesHyswap
    \/ CalculatePercentilesManual
    \/ GetPercentileThresholds
    \/ GetCurrentPercentile

SpecReference == InitReference /\ [][NextReference]_vars

\* the day-of-year buckets of a history that hold at least five samples
FullBuckets(df) == {doy \in DOMAIN df.days : Len(df.days[doy]) >= 5}

\* C24: whenever the primary percentile routine is unavailable or raises for a
\* site, the result returned for the site is exactly the result of the manual
\* per-day-of-year computation on the same history: None where the history
\* has no usable bucket, else one row per bucket of at least five samples.
C24_FallsBackToManual ==
    (/\ Called("calculate_percentiles_hyswap")
     /\ \/ ~args.HYSWAP_AVAILABLE
        \/ args.df.discharge /\ args.hyswap.raises) =>
        /\ ret = calculate_percentiles_manual(args.df, args.site_id)
        /\ IsSome(ret) <=>
              (args.df.discharge /\ args.df.dated /\ FullBuckets(args.df) # {})
        /\ IsSome(ret) =>
              /\ {Get(ret)[i].doy : i \in 1..Len(Get(ret))} = FullBuckets(args.df)
              /\ \A i \in 1..Len(Get(ret)) : Get(ret)[i].pcts[50] = IntRat(30)

\* the library raised and the manual rows of two full buckets were returned
C24_Witness ==
    /\ Called("calculate_percentiles_hyswap")
    /\ args.HYSWAP_AVAILABLE
    /\ args.hyswap.raises
    /\ IsSome(ret)
    /\ Len(Get(ret)) = 2

----------------------------------------------------------------------------
(* The calendar keys of the manual fallback *)

\* the days of the months of a year
MonthLengths(leap) ==
    <<31, IF leap THEN 29 ELSE 28, 31, 30, 31, 30, 31, 31, 30, 31, 30, 31>>

\* the <<month, day>> of day-of-year doy in a leap or a common year
RECURSIVE DateFrom(_, _, _)
DateFrom(month, doy, leap) ==
    IF month = 12 \/ doy <= MonthLengths(leap)[month] THEN <<month, doy>>
    ELSE DateFrom(month + 1, doy - MonthLengths(leap)[month], leap)

CalendarDate(doy, leap) == DateFrom(1, doy, leap)

\* the days of the year that fall on a calendar date, in a leap or a common year
DaysOfYearOf(date) ==
    {doy \in 1..366 : \E leap \in BOOLEAN :
        /\ CalendarDate(doy, leap) = date
        /\ leap \/ doy <= 365}

\* the (month, day) keys of the rows of distinct buckets are distinct
C28_DistinctKeys ==
    (Called("calculate_percentiles_manual") /\ IsSome(ret)) =>
        \A i, j \in 1..Len(Get(ret)) :
            i # j => Get(ret)[i].month_day # Get(ret)[j].month_day

\* C28: in the manual fallback, for every day-of-year bucket d in 1..366 the
\* (month, day) key written for the bucket is the calendar month and day of
\* day-of-year d (of a leap year or of a common year), distinct buckets get
\* distinct keys, and therefore every calendar date whose bucket has at least
\* 5 samples has threshold rows that the live lookup by today's month and day
\* finds.
C28_CalendarKeys ==
    /\ (Called("calculate_percentiles_manual") /\ IsSome(ret)) =>
          \A i \in 1..Len(Get(ret)) :
              \E leap \in BOOLEAN :
                  parse_month_day(Get(ret)[i].month_day)
                      = Some(CalendarDate(Get(ret)[i].doy, leap))
    /\ C28_DistinctKeys
    /\ (/\ Called("get_percentile_thresholds")
        /\ args.df.discharge /\ args.df.dated
        /\ \A doy \in DaysOfYearOf(<<args.month, args.day>>) :
              doy \in FullBuckets(args.df)) =>
          DOMAIN ret = PERCENTILES

----------------------------------------------------------------------------
(* Upstream requests per batch and run *)

\* C25 as stated: per run at most one upstream request is issued for each
\* batch.
C25_OneRequestPerBatch ==
    \A b \in DOMAIN task : task[b].requests <= 1

\* C25 amended: a batch is fetched once per run and is attempted again only by
\* a later run.  The parallel ingest issues at most one upstream request for
\* it; the sequential ingest issues one RDB request and, only when that one
\* yields no records, one JSON request for the same batch, never more.
C25_NoRetryWithinRun ==
    /\ program = "parallel" =>
          /\ DOMAIN task \subseteq 1..Len(batches)
          /\ \A b \in DOMAIN task : task[b].requests <= 1
    /\ program = "sequential" =>
          /\ Len(task) = batch_idx
          /\ batch_idx <= Len(batches)
          /\ \A b \in DOMAIN task :
                /\ task[b].requests \in {1, 2}
                /\ task[b].requests = 1 =>
                      /\ task[b].result # <<>>
                      /\ task[b].result[1].stat_type # "mean"

\* the second run is fetching, with two requests, the batch whose two requests
\* of the first run both returned nothing
C25_Witness ==
    /\ program = "sequential"
    /\ runs = 1
    /\ usgs_statistics = <<>>
    /\ Len(task) = 1
    /\ task[1].requests = 2
    /\ Len(sites) = SITES_PER_BATCH + 1

----------------------------------------------------------------------------
(* usgs_live_conditions.py: the live monitor's fetch over a site list:
   SpecMonitor.  get_iv is the answer of nwis.get_iv for each group of the
   list: [raises |-> TRUE], or the sites its DataFrame has rows for. *)

\* the sites of one nwis.get_iv call
SITES_PER_GET_IV == 100

\* the reading parsed from a site's latest row
reading_of(site_no, now) ==
    [flow_cfs |-> Some(500), gage_height_ft |-> Some(3), water_temp_c |-> None,
     timestamp |-> now]

\* the groups of the explicit site list
iv_groups(site_nos) == make_batches(site_nos, SITES_PER_GET_IV)

\* fetch_live_readings(site_nos=site_nos): site_no -> reading
fetch_live_readings(site_nos, get_iv, now) ==
    LET groups == iv_groups(site_nos)
        all_dfs == {g \in 1..Len(groups) : get_iv[g].sites # {}}
        df == UNION {get_iv[g].sites : g \in all_dfs}
    IN  IF \E g \in 1..Len(groups) : get_iv[g].raises THEN <<>>
        ELSE [site_no \in df |-> reading_of(site_no, now)]

\* df['site_no'].unique() of a frame whose rows come in site order
unique(S) ==
    [i \in 1..Cardinality(S) |->
        CHOOSE x \in S : Cardinality({y \in S : y < x}) = i - 1]

\* run_live_monitor(sites=site_nos) on the table: the table it leaves and the
\* number of conditions it saved
run_live_monitor(table, site_nos, get_iv, now) ==
    LET readings == fetch_live_readings(site_nos, get_iv, now)
        order == unique(DOMAIN readings)
        conditions == [i \in 1..Len(order) |->
                          compute_live_condition(order[i], readings[order[i]],
                                                 <<>>, <<>>, now)]
    IN  IF DOMAIN readings = {} THEN [table |-> table, processed |-> 0]
        ELSE [table |-> save_conditions(table, conditions, TRUE, now).table,
              processed |-> Len(conditions)]

\* the lengths of the site lists: one group, a full group, one and two full
\* groups and a site
MonitorSiteCounts == {1, SITES_PER_GET_IV, SITES_PER_GET_IV + 1, 2 * SITES_PER_GET_IV + 1}

\* the answers of nwis.get_iv for a group: it raises, an empty frame, rows for
\* every site, rows for every site but the first
GetIvAnswers(group) ==
    {[raises |-> TRUE, sites |-> {}], [raises |-> FALSE, sites |-> {}],
     [raises |-> FALSE, sites |-> SitesOf(group)],
     [raises |-> FALSE, sites |-> SitesOf(group) \ {group[1]}]}

InitMonitor ==
    \E n \in MonitorSiteCounts :
       LET site_nos == [i \in 1..n |-> i]
           groups == iv_groups(site_nos)
       IN  \E get_iv \in [1..Len(groups) -> UNION {GetIvAnswers(groups[g]) : g \in 1..Len(groups)}] :
              /\ \A g \in 1..Len(groups) : get_iv[g] \in GetIvAnswers(groups[g])
              /\ \E f \in {"fetch_live_readings", "run_live_monitor"} :
                    Call(f, [site_nos |-> site_nos, get_iv |-> get_iv])

FetchLiveReadings ==
    /\ fn = "fetch_live_readings"
    /\ Return(fetch_live_readings(args.site_nos, args.get_iv, clock))

RunLiveMonitor ==
    /\ fn = "run_live_monitor"
    /\ ~returned
    /\ LET done == run_live_monitor(usgs_live_conditions, args.site_nos, args.get_iv, clock)
       IN  /\ usgs_live_conditions' = done.table
           /\ ret' = done.processed
    /\ returned' = TRUE
    /\ UNCHANGED <<fn, args, usgs_statistics, clock, runs, first_run, last_saved,
                   S3Vars, IngestVars>>

NextMonitor ==
    \/ FetchLiveReadings
    \/ RunLiveMonitor

SpecMonitor == InitMonitor /\ [][NextMonitor]_vars

\* the sites of the groups that were fetched successfully
FetchedSites ==
    UNION {args.get_iv[g].sites : g \in {g \in DOMAIN args.get_iv : ~args.get_iv[g].raises}}

\* C26: in the live monitor's fetch over an explicit site list split into
\* groups of 100 sites, a failure while fetching one group does not abort the
\* run: the readings of the groups that were fetched successfully are still
\* returned and processed into live conditions.
C26_GroupFailureTolerated ==
    /\ Called("fetch_live_readings") => FetchedSites \subseteq DOMAIN ret
    /\ Called("run_live_monitor") =>
          /\ FetchedSites \subseteq DOMAIN usgs_live_conditions
          /\ ret >= Cardinality(FetchedSites)

\* when no group's fetch fails, the readings of every group are returned and
\* processed into live conditions
C26_AllGroupsFetched ==
    (returned /\ \A g \in DOMAIN args.get_iv : ~args.get_iv[g].raises) =>
        /\ Called("fetch_live_readings") => DOMAIN ret = FetchedSites
        /\ Called("run_live_monitor") =>
              /\ DOMAIN usgs_live_conditions = FetchedSites
              /\ ret = Cardinality(FetchedSites)

\* a failure while fetching one group leaves the run with no reading at all
C26_OneFailureLosesAll ==
    (returned /\ \E g \in DOMAIN args.get_iv : args.get_iv[g].raises) =>
        /\ Called("fetch_live_readings") => ret = <<>>
        /\ Called("run_live_monitor") => usgs_live_conditions = <<>> /\ ret = 0

----------------------------------------------------------------------------
(* usgs_statistics_parallel.py: what a chunk's one statement stores *)

\* the batches of the chunk whose own records PostgreSQL would accept
CleanBatches ==
    {b \in DOMAIN task : task[b].result # <<>> /\ ~affects_row_twice(task[b].result)}

\* a task's records are in the table
Stored(b) ==
    \A i \in 1..Len(task[b].result) : KeyOf(task[b].result[i]) \in DOMAIN usgs_statistics

\* C27: in the parallel ingest each successfully fetched batch's records are
\* persisted by that batch's own bulk upsert, so a persistence failure caused
\* by one batch's records never prevents a sibling batch's records from being
\* stored.
C27_SiblingsStored ==
    (program = "parallel" /\ pc \in {"sleep", "done"} /\ args.db_ok) =>
        \A b \in CleanBatches : Stored(b)

\* the chunk's records are stored by one statement: all of them or none
C27_ChunkAllOrNothing ==
    (program = "parallel" /\ pc \in {"sleep", "done"}) =>
        \/ usgs_statistics = <<>>
        \/ \A b \in DOMAIN task : Stored(b)

\* a chunk in which a batch's records hit a key twice stores nothing
C27_OneBatchFailsTheChunk ==
    (/\ program = "parallel" /\ pc \in {"sleep", "done"}
     /\ \E b \in DOMAIN task : affects_row_twice(task[b].result))
    => usgs_statistics = <<>> /\ total_records = 0

----------------------------------------------------------------------------
(* get_current_percentile against the live engine's classification *)

\* what the live engine returns for the same thresholds and reading
LiveClassification ==
    LET p == interpolate_percentile(args.current_flow, args.thresholds)
    IN  IF ~IsSome(p) THEN None
        ELSE Some([percentile |-> Get(p),
                   flow_status |-> get_flow_status(Get(p)),
                   drought_status |-> get_drought_status(Get(p))])

\* C29: for every threshold mapping and reading, get_current_percentile
\* returns the same percentile, the same flow-status label and the same
\* drought-status label as the live engine's interpolate_percentile,
\* get_flow_status and get_drought_status.
C29_SameClassification ==
    Called("get_current_percentile") => ret = LiveClassification

\* the two agree on whether there is a percentile, and on the percentile up to
\* get_current_percentile's rounding to one decimal
C29_SamePercentileRounded ==
    Called("get_current_percentile") =>
        /\ IsSome(ret) <=> IsSome(LiveClassification)
        /\ IsSome(ret) =>
              Get(ret).percentile = Rat(round(Get(LiveClassification).percentile, 10), 10)

\* from the 30th percentile up to the 90th the two give the same labels
C29_SameLabelsFrom30To90 ==
    (/\ Called("get_current_percentile") /\ IsSome(ret)
     /\ RatLe(IntRat(30), Get(LiveClassification).percentile)
     /\ RatLt(Get(LiveClassification).percentile, IntRat(90)))
    => /\ Get(ret).flow_status = Get(LiveClassification).flow_status
       /\ Get(ret).drought_status = Get(LiveClassification).drought_status

\* the labels alone differ as well: some reading is labelled differently
C29_SameLabels ==
    (Called("get_current_percentile") /\ IsSome(ret)) =>
        /\ Get(ret).flow_status = Get(LiveClassification).flow_status
        /\ Get(ret).drought_status = Get(LiveClassification).drought_status

----------------------------------------------------------------------------
(* The ingest mains' totals of sites and records *)

\* C30: the run summary's sites total counts only sites whose records were
\* written: when the bulk upsert of a batch or chunk fails and is rolled back,
\* its sites are not added to the sites total, so a sites total above zero
\* implies a records total above zero.
C30_SitesOnlyWhenWritten ==
    /\ total_sites > 0 => total_records > 0
    /\ total_sites <= Cardinality(SitesWithStats(usgs_statistics))

\* the sites total counts the sites whose records were fetched, written or not
C30_SitesCountFetched ==
    program \in {"parallel", "sequential"} =>
        /\ total_records > 0 => total_sites > 0
        /\ total_sites >= Cardinality(SitesWithStats(usgs_statistics))
        /\ pc = "done" =>
              total_sites = Cardinality({r.site_no : r \in FetchedRecords})

====
